---- MODULE Spec2Model ----
(***************************************************************************)
(* Verification model of the chicago_lst analysis pipeline:                *)
(*   analysis/01_extract_zonal_timeseries.py  (zonal statistics, main loop)*)
(*   analysis/02_compute_anomaly_and_risk.py  (baseline, anomaly, risk)    *)
(*   analysis/34_match_controls_by_covariates.py (greedy matching)         *)
(* Floating point values are records [t, n, d]: t is "num" (the rational   *)
(* n/d, d > 0, in lowest terms), "nan", "inf" (+infinity), "ninf"          *)
(* (-infinity), "none" (Python None) or "raise" (the call raised).         *)
(***************************************************************************)
EXTENDS Integers, Sequences, FiniteSets, TLC

VARIABLES
    zs,          \* SpecStats: the last call of safe_stat / zonal_stats_for_geom
    risk,        \* SpecRisk: the last evaluation of the composite risk score
    \* 01_extract_zonal_timeseries.py main():
    mcfg,        \* the loaded configuration (cfg)
    aois,        \* the loaded AOI ids, in file order
    rasters,     \* the sorted raster files: [name, crs, lst, bounds]
    pc,          \* position in main
    ri,          \* index of the current raster (enumerate(rasters))
    aois_by_crs, \* the reprojection cache: entries [key, frame]
    opened,      \* indexes of the rasters opened by rasterio.open(rp)
    to_crs_calls,\* the CRS keys of the aois.to_crs calls, in call order
    diag,        \* what the SystemExit message names (empty: no SystemExit)
    todo,        \* rows of aois_r not yet iterated: [aoi, rel]
    handles,     \* cloud_src, water_src, qc_src, lst_err_src: not None
    avail,       \* companions of this raster that exist and were opened
    open_handles,\* companion datasets open in the process: <<raster, channel>>
    opens,       \* rasterio.open calls on each companion for this raster
    records,     \* the records list
    last,        \* the last call of zonal_stats_for_geom made by main
    out_file,    \* the rows written to timeseries.csv
    \* 34_match_controls_by_covariates.py main():
    margs,       \* args: [k, no_reuse, features] and the columns of df
    out_csv,     \* matched_controls.csv: [exists, rows]
    df,          \* meta merged with the covariates: rows [aoi_id, is_dc, buffer_m, x]
    mpc,         \* position in main
    groups,      \* buffer_m keys of df.groupby not yet visited, ascending
    dci,         \* index of the next row of dcs (enumerate(dcs.itertuples()))
    results,     \* the results list of MatchResult
    used_controls, \* the used_controls set
    \* 02_compute_anomaly_and_risk.py main():
    min_obs,     \* cfg.baseline.min_obs_per_group
    tseries,     \* the rows of timeseries.csv: [aoi_id, dt, group, mean]
    apc,         \* position in main
    base,        \* the base table, one row per (aoi_id, group)
    df2,         \* the joined table with anomaly, z, is_hot_night
    \* 30_collapse_and_filter_observations.py main():
    cargs,       \* args: [min_abs_pixels, min_frac_of_p95]
    cin,         \* the rows of regression_ready_rows.csv
    cpc,         \* position in main
    collapsed,   \* collapsed_aoi_dt.csv
    usable,      \* collapsed_aoi_dt_usable.csv
    \* 14_enrich_data_center_opening_dates.py main():
    erows,       \* rows of the data center CSV
    seed_map,    \* the manual seeds: entries [key, seed]
    epc,         \* position in main
    ei,          \* index of the next row of the loop of line 99
    unresolved,  \* the unresolved list
    efiles,      \* the written files: [csv, queue]
    \* 12_parse_chicago_data_centers.py:
    pb,          \* the last call of parse_blocks
    \* 01_extract_zonal_timeseries.py main(), lines 196-207:
    pr,          \* the last pruning of a frame to a tile
    \* 21_make_matched_controls.py:
    sp           \* the call of sample_points_within

statsVars == <<zs>>
riskVars == <<risk>>
mainVars == <<mcfg, aois, rasters, pc, ri, aois_by_crs, opened, to_crs_calls,
              diag, todo, handles, avail, open_handles, opens, records, last,
              out_file>>

matchVars == <<margs, out_csv, df, mpc, groups, dci, results, used_controls>>

vars == <<zs, risk, mcfg, aois, rasters, pc, ri, aois_by_crs, opened,
          to_crs_calls, diag, todo, handles, avail, open_handles, opens,
          records, last, out_file,
          margs, out_csv, df, mpc, groups, dci, results, used_controls,
          min_obs, tseries, apc, base, df2,
          cargs, cin, cpc, collapsed, usable,
          erows, seed_map, epc, ei, unresolved, efiles, pb, pr, sp>>

anomVars == <<min_obs, tseries, apc, base, df2>>

collapseVars == <<cargs, cin, cpc, collapsed, usable>>

enrichVars == <<erows, seed_map, epc, ei, unresolved, efiles>>

parseVars == <<pb>>

pruneVars == <<pr>>

sampleVars == <<sp>>

----------------------------------------------------------------------------
(* Bounds of the model *)

MaxPix == 2          \* pixels in a cropped sample array
MaxQPix == 2         \* pixels of a sample array in the quality-mask cases
MaxSlices == 2       \* raster files of one run of main
MaxAois == 2         \* AOIs of a run without companion masks
MaxUnits == 4        \* AOIs of the first buffer group of a matching run
MaxObs == 3          \* rows of timeseries.csv
MaxTiles == 2        \* rows of regression_ready_rows.csv
MaxSites == 2        \* rows of the data center CSV
MaxBlocks == 3       \* blocks of lines given to parse_blocks
MaxNights == 15      \* dated observations of one AOI
MaxControls == 2     \* n of sample_points_within
MaxTries == 3        \* max_tries of sample_points_within

----------------------------------------------------------------------------
(* Floating point values *)

Abs(x) == IF x < 0 THEN -x ELSE x

RECURSIVE Gcd(_, _)
Gcd(a, b) == IF b = 0 THEN a ELSE Gcd(b, a % b)

NaN == [t |-> "nan", n |-> 0, d |-> 1]
PInf == [t |-> "inf", n |-> 0, d |-> 1]
NInf == [t |-> "ninf", n |-> 0, d |-> 1]
NoneV == [t |-> "none", n |-> 0, d |-> 1]
Raised == [t |-> "raise", n |-> 0, d |-> 1]

\* the rational a/b (b > 0) in lowest terms
Rat(a, b) ==
    LET g == Gcd(Abs(a), b)
    IN [t |-> "num", n |-> a \div g, d |-> b \div g]

Num(a) == [t |-> "num", n |-> a, d |-> 1]

IsNum(v) == v.t = "num"
IsNaN(v) == v.t = "nan"

Range(s) == {s[i] : i \in 1..Len(s)}

RECURSIVE SeqSum(_)
SeqSum(s) == IF s = <<>> THEN 0 ELSE Head(s) + SeqSum(Tail(s))

\* all sequences over S of length lo..hi
SeqsOf(S, lo, hi) == UNION {[1..k -> S] : k \in lo..hi}

----------------------------------------------------------------------------
(* 01_extract_zonal_timeseries.py: transform_values, safe_stat *)

StatNames == {"mean", "median", "p90", "count"}

\* data[data == v] = nan : a finite cell equal to v becomes NaN
MaskEquals(data, v) ==
    [i \in 1..Len(data) |-> IF IsNum(v) /\ data[i] = v THEN NaN ELSE data[i]]

\* data[data < v] = nan : a cell below v (also -inf) becomes NaN
MaskBelow(data, v) ==
    [i \in 1..Len(data) |->
        IF IsNum(v) /\ ((IsNum(data[i]) /\ data[i].n < v.n) \/ data[i].t = "ninf")
        THEN NaN ELSE data[i]]

\* arr * scale + offset on one cell (IEEE: inf * 0 = nan)
ScaleOffset(x, scale, offset) ==
    CASE IsNum(x) -> Num(x.n * scale + offset)
      [] IsNaN(x) -> NaN
      [] OTHER -> IF scale = 0 THEN NaN
                  ELSE IF (x.t = "inf") = (scale > 0) THEN PInf ELSE NInf

\* [exc, arr]: the transformed array; exc for an unknown value_transform.type
transform_values(arr, ts) ==
    CASE ts.type = "identity" -> [exc |-> FALSE, arr |-> arr]
      [] ts.type = "scale_offset" ->
            [exc |-> FALSE,
             arr |-> [i \in 1..Len(arr) |-> ScaleOffset(arr[i], ts.scale, ts.offset)]]
      [] OTHER -> [exc |-> TRUE, arr |-> <<>>]

\* the finite cells of arr, as integers in ascending order
SortedFinite(arr) ==
    LET f == SelectSeq(arr, IsNum)
    IN SortSeq([i \in 1..Len(f) |-> f[i].n], LAMBDA a, b : a < b)

\* numpy.percentile(vals, 90), linear interpolation, on sorted integers s
Percentile90(s) ==
    LET m == Len(s)
        lo == (9 * (m - 1)) \div 10
        r == (9 * (m - 1)) % 10
        hi == IF lo + 2 <= m THEN lo + 2 ELSE m
    IN Rat(10 * s[lo + 1] + r * (s[hi] - s[lo + 1]), 10)

Median(s) ==
    LET m == Len(s)
    IN IF m % 2 = 1 THEN Num(s[(m + 1) \div 2])
       ELSE Rat(s[m \div 2] + s[m \div 2 + 1], 2)

\* mutant: an all-invalid array reports count 0 instead of NaN
safe_stat_count0(arr, stat) ==
    IF Len(arr) = 0 THEN NaN
    ELSE LET vals == SortedFinite(arr)
         IN CASE stat = "count" -> Num(Len(vals))
              [] Len(vals) = 0 -> NaN
              [] stat = "mean" -> Rat(SeqSum(vals), Len(vals))
              [] stat = "median" -> Median(vals)
              [] stat = "p90" -> Percentile90(vals)
              [] OTHER -> Raised

safe_stat(arr, stat) ==
    IF Len(arr) = 0 THEN NaN
    ELSE LET vals == SortedFinite(arr)
         IN IF Len(vals) = 0 THEN NaN
            ELSE CASE stat = "mean" -> Rat(SeqSum(vals), Len(vals))
                   [] stat = "median" -> Median(vals)
                   [] stat = "p90" -> Percentile90(vals)
                   [] stat = "count" -> Num(Len(vals))
                   [] OTHER -> Raised

----------------------------------------------------------------------------
(* 01_extract_zonal_timeseries.py: zonal_stats_for_geom *)

Channels == {"cloud", "water", "qc", "err"}

\* a companion argument that is None
NoSrc == [h |-> FALSE, ok |-> FALSE, img |-> <<>>]

RECURSIVE BitAnd(_, _)
BitAnd(a, b) ==
    IF a = 0 \/ b = 0 THEN 0
    ELSE (a % 2) * (b % 2) + 2 * BitAnd(a \div 2, b \div 2)

\* _mask_band: None for a None source or a ValueError of the mask
MaskBandOk(src_mask) == src_mask.h /\ src_mask.ok

\* whether channel c keeps cell i of its (successfully masked) image
ChannelKeeps(c, img, i, q) ==
    CASE c = "cloud" -> img[i] \in q.keep_cloud_values
      [] c = "water" -> img[i] \in q.keep_water_values
      [] c = "qc" -> BitAnd(img[i], q.qc_class_bitmask) \in q.qc_keep_classes
      [] c = "err" -> img[i] <= q.max_lst_err.n

\* the channels whose rule is AND-ed into keep
AppliedChannels(srcs, q) ==
    {c \in Channels :
        /\ c = "err" => q.max_lst_err # NoneV
        /\ MaskBandOk(srcs[c])}

\* the companions on which rasterio.mask.mask is called
MaskedChannels(srcs, q) ==
    {c \in Channels : (c = "err" => q.max_lst_err # NoneV) /\ srcs[c].h}

QualityOn(q) == q.enabled /\ q.ecostress_companion_masks

\* data after nodata masking and quality masking (lines 111-153)
MaskedData(src, cfg, srcs) ==
    LET d0 == src.crop
        d1 == MaskEquals(d0, src.nodata)
        d2 == MaskEquals(d1, cfg.nodata_equals)
        d3 == MaskBelow(d2, cfg.nodata_below)
        q == cfg.quality
    IN IF QualityOn(q)
       THEN [i \in 1..Len(d3) |->
                IF /\ IsNum(d3[i])
                   /\ \A c \in AppliedChannels(srcs, q) :
                          ChannelKeeps(c, srcs[c].img, i, q)
                THEN d3[i] ELSE NaN]
       ELSE d3

AllNaN(cfg) == [s \in Range(cfg.stats) |-> NaN]

NoStats == [s \in {} |-> NaN]

\* mutant: no fast reject, every geometry goes to the crop/mask
zonal_stats_no_fast_reject(src, geom, cfg, srcs) ==
    IF ~geom.overlap
    THEN [exc |-> FALSE, stats |-> AllNaN(cfg), masked |-> {"primary"},
          data |-> <<>>]
    ELSE
      LET data == MaskedData(src, cfg, srcs)
          tv == transform_values(data, cfg.value_transform)
          attempted == {"primary"} \cup
                       (IF QualityOn(cfg.quality)
                        THEN MaskedChannels(srcs, cfg.quality) ELSE {})
          res == [s \in Range(cfg.stats) |-> safe_stat(tv.arr, s)]
      IN IF tv.exc \/ \E s \in Range(cfg.stats) : res[s] = Raised
         THEN [exc |-> TRUE, stats |-> NoStats, masked |-> attempted,
               data |-> tv.arr]
         ELSE [exc |-> FALSE, stats |-> res, masked |-> attempted,
               data |-> tv.arr]

\* The result of one call: exc (an exception left the call), stats (the
\* returned dict), masked (the rasters on which crop/mask was attempted),
\* data (the array handed to safe_stat, <<>> on an early return).
zonal_stats_for_geom(src, geom, cfg, srcs) ==
    IF geom.chk = "disjoint"
    THEN [exc |-> FALSE, stats |-> AllNaN(cfg), masked |-> {}, data |-> <<>>]
    ELSE IF ~geom.overlap
    THEN [exc |-> FALSE, stats |-> AllNaN(cfg), masked |-> {"primary"},
          data |-> <<>>]
    ELSE
      LET data == MaskedData(src, cfg, srcs)
          tv == transform_values(data, cfg.value_transform)
          attempted == {"primary"} \cup
                       (IF QualityOn(cfg.quality)
                        THEN MaskedChannels(srcs, cfg.quality) ELSE {})
          res == [s \in Range(cfg.stats) |-> safe_stat(tv.arr, s)]
      IN IF tv.exc \/ \E s \in Range(cfg.stats) : res[s] = Raised
         THEN [exc |-> TRUE, stats |-> NoStats, masked |-> attempted,
               data |-> tv.arr]
         ELSE [exc |-> FALSE, stats |-> res, masked |-> attempted,
               data |-> tv.arr]

----------------------------------------------------------------------------
(* SpecStats: one call of safe_stat or of zonal_stats_for_geom on inputs   *)
(* drawn from bounded sets.                                                *)

PixVals == {NaN, PInf, Num(0), Num(1), Num(4)}

StatsConfigs ==
    {<<"mean">>, <<"mean", "median", "p90", "count">>,
     <<"count", "bogus">>, <<"bogus", "mean">>}

Transforms ==
    {[type |-> "identity", scale |-> 1, offset |-> 0],
     [type |-> "scale_offset", scale |-> 2, offset |-> -1],
     [type |-> "log", scale |-> 1, offset |-> 0]}

\* (src.nodata, cfg.nodata_equals, cfg.nodata_below)
NodataRules ==
    {<<NoneV, NoneV, NoneV>>, <<Num(0), NoneV, NoneV>>, <<NoneV, Num(4), Num(1)>>}

Geoms ==
    {[chk |-> "disjoint", overlap |-> FALSE],
     [chk |-> "intersects", overlap |-> FALSE],
     [chk |-> "intersects", overlap |-> TRUE],
     [chk |-> "raises", overlap |-> FALSE],
     [chk |-> "raises", overlap |-> TRUE]}

\* QualitySpec defaults (utils_config.py), with the given switches
Quality(en, comp, maxerr) ==
    [enabled |-> en, ecostress_companion_masks |-> comp,
     keep_cloud_values |-> {0}, keep_water_values |-> {0},
     qc_keep_classes |-> {0, 1}, qc_class_bitmask |-> 3,
     max_lst_err |-> maxerr]

QualityOff == Quality(FALSE, FALSE, NoneV)

NoSrcs == [c \in Channels |-> NoSrc]

MkCfg(stats, nr, ts, q) ==
    [stats |-> stats, nodata_equals |-> nr[2], nodata_below |-> nr[3],
     value_transform |-> ts, quality |-> q]

\* the values a companion image holds: one kept and one rejected per channel
ChannelVals(c) ==
    CASE c = "cloud" -> {0, 1}
      [] c = "water" -> {0, 1}
      [] c = "qc" -> {1, 6}
      [] c = "err" -> {1, 2}

\* a companion argument: None, a source whose mask raises ValueError, or a
\* source whose mask yields an image of k cells
CompanionSrcs(c, k) ==
    {NoSrc, [h |-> TRUE, ok |-> FALSE, img |-> <<>>]} \cup
    {[h |-> TRUE, ok |-> TRUE, img |-> im] : im \in [1..k -> ChannelVals(c)]}

\* inputs without quality masking: every geometry, nodata rule, transform
PlainInputs ==
    {[src |-> [nodata |-> nr[1], crop |-> d], geom |-> g,
      cfg |-> MkCfg(st, nr, ts, QualityOff), srcs |-> NoSrcs] :
        g \in {x \in Geoms : ~x.overlap}, d \in {<<>>},
        st \in StatsConfigs, nr \in NodataRules, ts \in Transforms}
    \cup
    {[src |-> [nodata |-> nr[1], crop |-> d], geom |-> g,
      cfg |-> MkCfg(st, nr, ts, QualityOff), srcs |-> NoSrcs] :
        g \in {x \in Geoms : x.overlap}, d \in SeqsOf(PixVals, 1, MaxPix),
        st \in StatsConfigs, nr \in NodataRules, ts \in Transforms}

\* sample arrays of the quality cases: all finite, or the first cell NaN
QualityCrops ==
    {[i \in 1..MaxQPix |-> Num(i)],
     [i \in 1..MaxQPix |-> IF i = 1 THEN NaN ELSE Num(i)]}

\* inputs with the companion rasters and the quality switches varied
QualityInputs ==
    {[src |-> [nodata |-> NoneV, crop |-> d],
      geom |-> [chk |-> "intersects", overlap |-> TRUE],
      cfg |-> MkCfg(<<"mean", "count">>, <<NoneV, NoneV, NoneV>>,
                    [type |-> "identity", scale |-> 1, offset |-> 0],
                    Quality(sw[1], sw[2], me)),
      srcs |-> [c \in Channels |->
                  CASE c = "cloud" -> s1 [] c = "water" -> s2
                    [] c = "qc" -> s3 [] c = "err" -> s4]] :
        d \in QualityCrops,
        sw \in {<<TRUE, TRUE>>, <<TRUE, FALSE>>, <<FALSE, TRUE>>},
        me \in {NoneV, Num(1)},
        s1 \in CompanionSrcs("cloud", MaxQPix),
        s2 \in CompanionSrcs("water", MaxQPix),
        s3 \in CompanionSrcs("qc", MaxQPix),
        s4 \in CompanionSrcs("err", MaxQPix)}

\* inputs without overlap, with quality masking on and companions open
\* (their mask would raise ValueError as the primary's does)
RejectInputs ==
    {[src |-> [nodata |-> NoneV, crop |-> <<>>], geom |-> g,
      cfg |-> MkCfg(st, <<NoneV, NoneV, NoneV>>,
                    [type |-> "identity", scale |-> 1, offset |-> 0],
                    Quality(TRUE, TRUE, Num(1))),
      srcs |-> sr] :
        g \in {x \in Geoms : ~x.overlap}, st \in StatsConfigs,
        sr \in [Channels -> {NoSrc, [h |-> TRUE, ok |-> FALSE, img |-> <<>>]}]}

SafeStatInputs ==
    {[arr |-> a, stat |-> st] :
        a \in SeqsOf(PixVals, 0, MaxPix), st \in StatNames \cup {"bogus"}}

StatsIdle == zs = [op |-> "idle", pending |-> FALSE]

StatsInit ==
    \/ \E x \in SafeStatInputs :
          zs = [op |-> "safe_stat", pending |-> TRUE, in |-> x]
    \/ \E x \in PlainInputs \cup QualityInputs \cup RejectInputs :
          zs = [op |-> "zonal", pending |-> TRUE, in |-> x]

SafeStatCall ==
    /\ zs.op = "safe_stat" /\ zs.pending
    /\ zs' = [op |-> "safe_stat", pending |-> FALSE, in |-> zs.in,
              out |-> safe_stat(zs.in.arr, zs.in.stat)]
    /\ UNCHANGED <<riskVars, mainVars, matchVars, anomVars, collapseVars,
      enrichVars, parseVars, pruneVars, sampleVars>>

ZonalCall ==
    /\ zs.op = "zonal" /\ zs.pending
    /\ zs' = [op |-> "zonal", pending |-> FALSE, in |-> zs.in,
              out |-> zonal_stats_for_geom(zs.in.src, zs.in.geom, zs.in.cfg,
                                           zs.in.srcs)]
    /\ UNCHANGED <<riskVars, mainVars, matchVars, anomVars, collapseVars,
      enrichVars, parseVars, pruneVars, sampleVars>>

RiskIdle == risk = [pending |-> FALSE, called |-> FALSE]

StatsNext == SafeStatCall \/ ZonalCall

MainIdle ==
    /\ mcfg = [stats |-> <<>>] /\ aois = <<>> /\ rasters = <<>>
    /\ pc = "idle" /\ ri = 0 /\ aois_by_crs = {} /\ todo = <<>>
    /\ opened = {} /\ to_crs_calls = <<>> /\ diag = {}
    /\ handles = [c \in Channels |-> FALSE] /\ avail = {}
    /\ open_handles = {} /\ opens = [c \in Channels |-> 0]
    /\ records = <<>> /\ last = [called |-> FALSE] /\ out_file = <<>>

MatchIdle ==
    /\ margs = [k |-> 0, no_reuse |-> FALSE, features |-> <<>>, columns |-> {}]
    /\ out_csv = [exists |-> FALSE, rows |-> <<>>]
    /\ df = <<>> /\ mpc = "idle"
    /\ groups = <<>> /\ dci = 0 /\ results = <<>> /\ used_controls = {}

AnomIdle ==
    /\ min_obs = 0 /\ tseries = <<>> /\ apc = "idle" /\ base = <<>> /\ df2 = <<>>

CollapseIdle ==
    /\ cargs = [min_abs_pixels |-> Num(0), min_frac_of_p95 |-> Num(0)]
    /\ cin = <<>> /\ cpc = "idle" /\ collapsed = <<>> /\ usable = <<>>

EnrichIdle ==
    /\ erows = <<>> /\ seed_map = {} /\ epc = "idle" /\ ei = 0
    /\ unresolved = <<>>
    /\ efiles = [seeds |-> <<>>, csv |-> <<>>, queue |-> <<>>]

ParseIdle == pb = [pending |-> FALSE, called |-> FALSE]

PruneIdle == pr = [pending |-> FALSE, called |-> FALSE]

SampleIdle == sp = [pc |-> "idle"]

CallsIdle == PruneIdle /\ SampleIdle

RestIdle == CollapseIdle /\ EnrichIdle /\ ParseIdle /\ CallsIdle

InitStats ==
    StatsInit /\ RiskIdle /\ MainIdle /\ MatchIdle /\ AnomIdle /\ RestIdle

SpecStats == InitStats /\ [][StatsNext]_vars

----------------------------------------------------------------------------
(* Claims on safe_stat and zonal_stats_for_geom (SpecStats) *)

SafeStatDone == zs.op = "safe_stat" /\ ~zs.pending
ZonalDone == zs.op = "zonal" /\ ~zs.pending

FiniteCount(arr) == Cardinality({i \in 1..Len(arr) : IsNum(arr[i])})

\* C1: for each of mean, median, p90 and count, safe_stat returns NaN when
\* the array is zero-size or holds no finite value (count is NaN, not 0),
\* and count is the number of finite cells otherwise; a zonal call whose
\* sample has no finite cell reports NaN for every such statistic.
C1_NaNWhenNoValidPixel ==
    /\ (SafeStatDone /\ zs.in.stat \in StatNames) =>
          /\ FiniteCount(zs.in.arr) = 0 => zs.out = NaN
          /\ (FiniteCount(zs.in.arr) > 0 /\ zs.in.stat = "count") =>
                zs.out = Num(FiniteCount(zs.in.arr))
    /\ (ZonalDone /\ ~zs.out.exc /\ FiniteCount(zs.out.data) = 0) =>
          \A s \in DOMAIN zs.out.stats \cap StatNames : zs.out.stats[s] = NaN

\* witness of C1: count asked of a non-empty array with no finite cell
C1_Witness ==
    /\ SafeStatDone /\ zs.in.stat = "count"
    /\ Len(zs.in.arr) > 0 /\ FiniteCount(zs.in.arr) = 0
    /\ zs.out = NaN

\* C2: a polygon that does not intersect the raster's bounding rectangle
\* yields NaN for every requested statistic with no crop/mask attempted on
\* the primary or on a companion; a polygon for which the crop/mask reports
\* no overlap yields all-NaN statistics too, and neither raises.
C2_FastRejectAndNoOverlap ==
    ZonalDone =>
      /\ zs.in.geom.chk = "disjoint" =>
            /\ ~zs.out.exc
            /\ zs.out.masked = {}
            /\ \A s \in Range(zs.in.cfg.stats) : zs.out.stats[s] = NaN
      /\ ~zs.in.geom.overlap =>
            /\ ~zs.out.exc
            /\ zs.out.masked \cap Channels = {}
            /\ \A s \in Range(zs.in.cfg.stats) : zs.out.stats[s] = NaN

\* witness of C2: a disjoint polygon, quality masking on, companions open
C2_Witness ==
    /\ ZonalDone /\ zs.in.geom.chk = "disjoint"
    /\ QualityOn(zs.in.cfg.quality)
    /\ \A c \in Channels : zs.in.srcs[c].h
    /\ zs.out.masked = {}
    /\ \A s \in Range(zs.in.cfg.stats) : zs.out.stats[s] = NaN

\* C3 (as claimed): an unrecognized statistic name in cfg.stats makes every
\* call of zonal_stats_for_geom raise, also without overlap and on a sample
\* with no finite cell.
C3_UnknownStatAlwaysRaises ==
    (ZonalDone /\ \E s \in Range(zs.in.cfg.stats) : s \notin StatNames) =>
        zs.out.exc

----------------------------------------------------------------------------
(* 01_extract_zonal_timeseries.py: main *)

OtherThanMain == <<statsVars, riskVars, matchVars, anomVars, collapseVars,
      enrichVars, parseVars, pruneVars, sampleVars>>

ChanOrder == <<"cloud", "water", "qc", "err">>

ChanPos(c) == CHOOSE k \in 1..4 : ChanOrder[k] = c

KeepVal(c) == CASE c = "cloud" -> 0 [] c = "water" -> 0 [] c = "qc" -> 1
                [] c = "err" -> 1

RejectVal(c) == CASE c = "cloud" -> 1 [] c = "water" -> 1 [] c = "qc" -> 6
                  [] c = "err" -> 2

\* how an AOI lies to a tile: "far" (bounding boxes apart), "bbox" (only the
\* bounding boxes meet), "touch" (it intersects the tile's box, the crop/mask
\* finds no overlap), "in" (it covers pixels)
Rels == {"far", "bbox", "touch", "in"}

IntersectsTile(rel) == rel \in {"touch", "in"}

\* mutant: a captured text that does not fit date_format yields its day
parse_date_fail_open(name) ==
    IF ~name.m THEN [ok |-> FALSE, day |-> 0]
    ELSE [ok |-> TRUE, day |-> name.day]

\* lines 21-33: None when date_regex does not match the name (m) or when
\* strptime rejects the captured text (fits); else the day, formatted
parse_date_from_name(name) ==
    IF ~name.m THEN [ok |-> FALSE, day |-> 0]
    ELSE IF ~name.fits THEN [ok |-> FALSE, day |-> 0]
    ELSE [ok |-> TRUE, day |-> name.day]

\* src.bounds is not fixed by the run: any position of the AOIs to the tile
AnyBounds == [known |-> FALSE, rel |-> <<>>]

\* src.bounds puts the AOIs at the positions rel
KnownBounds(rel) == [known |-> TRUE, rel |-> rel]

\* the positions of the AOIs to the tile that src.bounds allows
TileRels(raster, frame) ==
    IF raster.bounds.known THEN {raster.bounds.rel}
    ELSE [Range(frame) -> Rels]

\* aois.to_crs(src.crs): a new frame, one row per AOI in file order
to_crs(frame, key) == [k \in 1..Len(frame) |-> [aoi |-> frame[k], crs |-> key]]

\* mutant: the cache lookup always misses
CacheMissAlways(cache, key) == TRUE

\* line 192: crs_key not in aois_by_crs
CacheMiss(cache, key) == \A e \in cache : e.key # key

\* aois_by_crs[crs_key]
CachedFrame(cache, key) == (CHOOSE e \in cache : e.key = key).frame

\* rows of a frame with their position to the tile
WithRel(frame, rel) ==
    [k \in 1..Len(frame) |-> [aoi |-> frame[k].aoi, rel |-> rel[frame[k].aoi]]]

\* mutant: the index returns only the rows that cover pixels of the tile
SindexCandidatesInside(rows) == SelectSeq(rows, LAMBDA row : row.rel = "in")

\* aois_r.sindex.intersection(rb.bounds): the rows whose bounding box meets
\* the tile's
SindexCandidates(rows) == SelectSeq(rows, LAMBDA row : row.rel # "far")

\* aois_r[aois_r.intersects(rb)]
ExactIntersects(rows) == SelectSeq(rows, LAMBDA row : IntersectsTile(row.rel))

\* how lines 197-207 end: "index" (lines 199-202), "fallback" (the index
\* lookup raised, line 204), "failed" (box or intersects raised, line 206)
PruneModes == {"index", "fallback", "failed"}

\* aois_r after lines 196-207, rows in AOI order
Pruned(rows, mode) ==
    CASE mode = "index" ->
           IF SindexCandidates(rows) # <<>>
           THEN ExactIntersects(SindexCandidates(rows)) ELSE <<>>
      [] mode = "fallback" -> ExactIntersects(rows)
      [] mode = "failed" -> rows

\* the rows left to iterate; once pruning is over, a row that does not
\* intersect the tile is only that ("far"), whatever its bounding box
Iterrows(rows) ==
    [k \in 1..Len(rows) |->
        [aoi |-> rows[k].aoi,
         rel |-> IF IntersectsTile(rows[k].rel) THEN rows[k].rel ELSE "far"]]

\* lines 164-178: SystemExit without rasters
Start ==
    /\ pc = "start"
    /\ IF rasters = <<>>
       THEN pc' = "exit" /\ diag' = {"raster_dir", "raster_glob"}
       ELSE pc' = "loop" /\ UNCHANGED diag
    /\ UNCHANGED <<mcfg, aois, rasters, ri, aois_by_crs, opened, to_crs_calls,
                   todo, handles, avail, open_handles, opens, records, last,
                   out_file, OtherThanMain>>

\* lines 179-210: next raster, parse its date, open it, cache the AOIs of
\* its CRS, prune the AOIs to the tile
BeginSlice ==
    /\ pc = "loop" /\ ri <= Len(rasters)
    /\ IF ~parse_date_from_name(rasters[ri].name).ok
       THEN /\ ri' = ri + 1
            /\ UNCHANGED <<pc, aois_by_crs, opened, to_crs_calls, todo>>
       ELSE LET key == rasters[ri].crs
                miss == CacheMiss(aois_by_crs, key)
                cache == IF miss
                         THEN aois_by_crs \cup
                                {[key |-> key, frame |-> to_crs(aois, key)]}
                         ELSE aois_by_crs
            IN /\ opened' = opened \cup {ri}
               /\ aois_by_crs' = cache
               /\ to_crs_calls' = IF miss THEN Append(to_crs_calls, key)
                                  ELSE to_crs_calls
               /\ \E rel \in TileRels(rasters[ri], aois), mode \in PruneModes :
                    LET aois_r == Pruned(WithRel(CachedFrame(cache, key), rel),
                                         mode)
                    IN IF aois_r = <<>>
                       THEN ri' = ri + 1 /\ UNCHANGED <<pc, todo>>
                       ELSE /\ todo' = Iterrows(aois_r)
                            /\ pc' = "open" /\ UNCHANGED ri
    /\ UNCHANGED <<mcfg, aois, rasters, diag, handles, avail, open_handles,
                   opens, records, last, out_file, OtherThanMain>>

\* lines 212-230: open the companions that exist, in order; an exception of
\* any open resets all four variables to None
OpenCompanions ==
    /\ pc = "open"
    /\ IF QualityOn(mcfg.quality) /\ rasters[ri].lst
       THEN \E exists \in SUBSET Channels, failAt \in Channels \cup {"none"} :
              /\ failAt \in exists \cup {"none"}
              /\ LET ok == IF failAt = "none" THEN exists
                           ELSE {c \in exists : ChanPos(c) < ChanPos(failAt)}
                 IN /\ handles' = [c \in Channels |-> failAt = "none" /\ c \in exists]
                    /\ avail' = ok
                    /\ open_handles' = open_handles \cup {<<ri, c>> : c \in ok}
                    /\ opens' = [c \in Channels |->
                                   IF c \in ok \/ c = failAt THEN 1 ELSE 0]
       ELSE /\ handles' = [c \in Channels |-> FALSE]
            /\ avail' = {}
            /\ opens' = [c \in Channels |-> 0]
            /\ UNCHANGED open_handles
    /\ pc' = "aois"
    /\ UNCHANGED <<mcfg, aois, rasters, ri, aois_by_crs, opened, to_crs_calls,
                   diag, todo, records, last, out_file, OtherThanMain>>

\* the companion arguments of one call: the open handles; a companion is
\* co-registered with the primary, so its crop/mask succeeds where the
\* primary's does; its cell holds a rejected value for the channels in rej
CompanionArgs(rej) ==
    [c \in Channels |->
        IF ~handles[c] THEN NoSrc
        ELSE [h |-> TRUE, ok |-> TRUE,
              img |-> <<IF c \in rej THEN RejectVal(c) ELSE KeepVal(c)>>]]

\* lines 231-252: one row of aois_r; an exception of the call leaves main
ProcessAoi ==
    /\ pc = "aois" /\ todo # <<>>
    /\ LET row == Head(todo) IN
       \E rej \in SUBSET avail :
         /\ row.rel # "in" => rej = {}
         /\ LET px == IF row.rel = "in" THEN Num(1) ELSE NaN
                out == zonal_stats_for_geom(
                          [nodata |-> NoneV, crop |-> <<px>>],
                          [chk |-> IF IntersectsTile(row.rel)
                                   THEN "intersects" ELSE "disjoint",
                           overlap |-> row.rel = "in"],
                          mcfg, CompanionArgs(rej))
            IN /\ last' = [called |-> TRUE, raster |-> ri, aoi |-> row.aoi,
                           rel |-> row.rel, rej |-> rej, px |-> px,
                           out |-> out]
               /\ IF out.exc
                  THEN pc' = "crashed" /\ UNCHANGED <<todo, records>>
                  ELSE /\ records' = Append(records,
                              [date |-> parse_date_from_name(
                                            rasters[ri].name).day,
                               aoi |-> row.aoi,
                               raster |-> ri, stats |-> out.stats])
                       /\ todo' = Tail(todo)
                       /\ pc' = IF Tail(todo) = <<>> THEN "close" ELSE "aois"
    /\ UNCHANGED <<mcfg, aois, rasters, ri, aois_by_crs, opened, to_crs_calls,
                   diag, handles, avail, open_handles, opens, out_file,
                   OtherThanMain>>

\* lines 254-259: close the companions the four variables still name
CloseCompanions ==
    /\ pc = "close"
    /\ open_handles' = open_handles \ {<<ri, c>> : c \in {x \in Channels : handles[x]}}
    /\ ri' = ri + 1
    /\ pc' = "loop"
    /\ last' = [called |-> FALSE]
    /\ UNCHANGED <<mcfg, aois, rasters, aois_by_crs, opened, to_crs_calls,
                   diag, todo, handles, avail, opens, records, out_file,
                   OtherThanMain>>

\* mutant: the rows are left in the order they were appended
RowBeforeUnsorted(a, b) == FALSE

\* sort_values(["aoi_id", "_dt"]): rows in ascending (aoi_id, _dt) order;
\* _dt is the date read back by to_datetime, which orders as the days do
RowBefore(a, b) == a.aoi < b.aoi \/ (a.aoi = b.aoi /\ a.date < b.date)

\* mutant: the record list is never taken to be empty
NoRecordsNever(recs) == FALSE

\* line 261: not records
NoRecords(recs) == recs = <<>>

\* what the SystemExit message of lines 264-275 names
NoRecordsDiag == {"raster_dir", "raster_glob", "date_regex", "date_format",
                  "examples"}

\* lines 261-284: SystemExit without records, else the sorted rows are written
Finish ==
    /\ pc = "loop" /\ ri > Len(rasters)
    /\ IF NoRecords(records)
       THEN pc' = "exit" /\ diag' = NoRecordsDiag /\ UNCHANGED out_file
       ELSE /\ pc' = "done" /\ out_file' = SortSeq(records, RowBefore)
            /\ UNCHANGED diag
    /\ UNCHANGED <<mcfg, aois, rasters, ri, aois_by_crs, opened, to_crs_calls,
                   todo, handles, avail, open_handles, opens, records, last,
                   OtherThanMain>>

MainNext ==
    \/ Start \/ BeginSlice \/ OpenCompanions \/ ProcessAoi \/ CloseCompanions
    \/ Finish

IdentityTransform == [type |-> "identity", scale |-> 1, offset |-> 0]

MainStart ==
    /\ pc = "start" /\ ri = 1 /\ aois_by_crs = {} /\ todo = <<>>
    /\ opened = {} /\ to_crs_calls = <<>> /\ diag = {}
    /\ handles = [c \in Channels |-> FALSE] /\ avail = {}
    /\ open_handles = {} /\ opens = [c \in Channels |-> 0]
    /\ records = <<>> /\ last = [called |-> FALSE] /\ out_file = <<>>

\* a file name whose date is found and fits date_format
Dated(day) == [m |-> TRUE, fits |-> TRUE, day |-> day]

\* runs with companion masks: one AOI, ECOSTRESS tiles of one CRS
InitCompanions ==
    /\ StatsIdle /\ RiskIdle /\ MatchIdle /\ AnomIdle /\ RestIdle /\ MainStart
    /\ mcfg \in {MkCfg(st, <<NoneV, NoneV, NoneV>>, IdentityTransform,
                       Quality(TRUE, TRUE, me)) :
                    st \in {<<"mean", "count">>, <<"count", "bogus">>},
                    me \in {Num(1)}}
    /\ aois = <<1>>
    /\ rasters \in SeqsOf({[name |-> Dated(1), crs |-> "A", lst |-> l,
                              bounds |-> AnyBounds] :
                             l \in BOOLEAN}, 1, MaxSlices)

SpecCompanions == InitCompanions /\ [][MainNext]_vars

\* the file names of the rasters: the regex misses, the captured text does
\* not fit, or one of two days
RasterNames == {[m |-> FALSE, fits |-> FALSE, day |-> 0],
                [m |-> TRUE, fits |-> FALSE, day |-> 0], Dated(1), Dated(2)}

\* the AOI ids in file order (descending, so that sorting reorders them)
LoadedAois == [k \in 1..MaxAois |-> MaxAois + 1 - k]

\* runs without companion masks: several AOIs, zero or more tiles of one
\* CRS, names that may not parse, a stats list that may hold an unknown name
InitZonal ==
    /\ StatsIdle /\ RiskIdle /\ MatchIdle /\ AnomIdle /\ RestIdle /\ MainStart
    /\ mcfg \in {MkCfg(st, <<NoneV, NoneV, NoneV>>, IdentityTransform,
                       QualityOff) :
                    st \in {<<"mean", "count">>, <<"count", "bogus">>}}
    /\ aois = LoadedAois
    /\ rasters \in SeqsOf({[name |-> n, crs |-> "A", lst |-> TRUE,
                              bounds |-> AnyBounds] :
                             n \in RasterNames}, 0, MaxSlices)

SpecZonal == InitZonal /\ [][MainNext]_vars

\* the CRS strings of the tiles
CrsKeys == {"A", "B"}

\* runs over dated tiles of several CRS
InitCache ==
    /\ StatsIdle /\ RiskIdle /\ MatchIdle /\ AnomIdle /\ RestIdle /\ MainStart
    /\ mcfg = MkCfg(<<"mean", "count">>, <<NoneV, NoneV, NoneV>>,
                    IdentityTransform, QualityOff)
    /\ aois = LoadedAois
    /\ rasters \in SeqsOf({[name |-> Dated(1), crs |-> c, lst |-> TRUE,
                              bounds |-> AnyBounds] :
                             c \in CrsKeys}, 1, MaxSlices)

SpecCache == InitCache /\ [][MainNext]_vars

\* the positions of an AOI to a tile whose bounds are known
KnownRels == {"far", "touch", "in"}

\* runs over dated tiles of one CRS whose bounds are known
InitTiles ==
    /\ StatsIdle /\ RiskIdle /\ MatchIdle /\ AnomIdle /\ RestIdle /\ MainStart
    /\ mcfg = MkCfg(<<"mean", "count">>, <<NoneV, NoneV, NoneV>>,
                    IdentityTransform, QualityOff)
    /\ aois = LoadedAois
    /\ rasters \in SeqsOf({[name |-> Dated(1), crs |-> "A", lst |-> TRUE,
                              bounds |-> KnownBounds(f)] :
                             f \in [Range(LoadedAois) -> KnownRels]},
                           1, MaxSlices)

SpecTiles == InitTiles /\ [][MainNext]_vars

\* the frames pruned on their own: any AOIs in any file order
LoadedFrames == {q \in SeqsOf(1..MaxAois, 0, MaxAois) :
                   \A j, k \in 1..Len(q) : q[j] = q[k] => j = k}

\* one pruning of a reprojected frame to a tile (lines 196-207)
InitPrune ==
    /\ StatsIdle /\ RiskIdle /\ MainIdle /\ MatchIdle /\ AnomIdle
    /\ CollapseIdle /\ EnrichIdle /\ ParseIdle /\ SampleIdle
    /\ \E q \in LoadedFrames : \E rel \in [Range(q) -> Rels] :
         pr = [pending |-> TRUE, called |-> FALSE,
               rows |-> WithRel(to_crs(q, "A"), rel)]

PruneCall ==
    /\ pr.pending
    /\ \E mode \in PruneModes :
         pr' = [pending |-> FALSE, called |-> TRUE, rows |-> pr.rows,
                mode |-> mode, kept |-> Pruned(pr.rows, mode)]
    /\ UNCHANGED <<statsVars, riskVars, mainVars, matchVars, anomVars,
                   collapseVars, enrichVars, parseVars, sampleVars>>

PruneNext == PruneCall

SpecPrune == InitPrune /\ [][PruneNext]_vars

----------------------------------------------------------------------------
(* Claims on the pruning of a frame to a tile (SpecPrune) *)

AoisOf(rows) == {rows[k].aoi : k \in 1..Len(rows)}

\* C22: the AOIs kept for a tile are the same whether they are found by the
\* spatial-index lookup followed by the exact intersects test or by the
\* linear intersects test taken when the lookup raises: either way they
\* are exactly the AOIs that intersect the tile's bounding box.
C22_IndexAndFallbackAgree ==
    (pr.called /\ pr.mode \in {"index", "fallback"}) =>
        /\ AoisOf(pr.kept) =
              {pr.rows[k].aoi : k \in {j \in 1..Len(pr.rows) :
                                         pr.rows[j].rel \in {"touch", "in"}}}
        /\ AoisOf(pr.kept) =
              AoisOf(Pruned(pr.rows, IF pr.mode = "index" THEN "fallback"
                                     ELSE "index"))
        /\ Len(pr.kept) = Cardinality(AoisOf(pr.kept))

\* witness of C22: the index path dropped an AOI whose bounding box alone
\* meets the tile's and kept one that only touches the tile
C22_Witness ==
    /\ pr.called /\ pr.mode = "index"
    /\ \E k \in 1..Len(pr.rows) : pr.rows[k].rel = "bbox"
    /\ \E k \in 1..Len(pr.kept) : pr.kept[k].rel = "touch"
    /\ Len(pr.kept) < Len(pr.rows)

----------------------------------------------------------------------------
(* Claims on the companion rasters of main (SpecCompanions) *)

\* C4 (as claimed): the four quality channels are independent: for every
\* call of zonal_stats_for_geom on a polygon covering pixels, each channel
\* whose companion exists and was opened constrains the sample, whatever
\* happened to the other companions: a cell that channel rejects is NaN in
\* the array the statistics are reduced from.
C4_ChannelsIndependent ==
    (last.called /\ last.rel = "in") =>
        \A c \in avail \cap last.rej :
            \A k \in 1..Len(last.out.data) : IsNaN(last.out.data[k])

\* C5 (as claimed): every companion is opened at most once per raster, and
\* no companion handle is open when the next raster starts or when the run
\* has ended (normally, by SystemExit or by an exception).
C5_HandlesClosedOnEveryPath ==
    /\ \A c \in Channels : opens[c] <= 1
    /\ pc \in {"loop", "done", "exit", "crashed"} => open_handles = {}

----------------------------------------------------------------------------
(* Claims on the extraction loop of main (SpecZonal) *)

Unparseable(name) == ~name.m \/ ~name.fits

\* C11: a time-slice whose file name yields no timestamp (the regex does
\* not match, or the captured text does not fit date_format) has no record
\* for any AOI, in the record list or in the written file, and its raster
\* is never opened.
C11_UnparsedSliceExcluded ==
    \A r \in 1..Len(rasters) :
        Unparseable(rasters[r].name) =>
            /\ r \notin opened
            /\ \A k \in 1..Len(records) : records[k].raster # r
            /\ \A k \in 1..Len(out_file) : out_file[k].raster # r

\* witness of C11: a run wrote its file after skipping a slice whose
\* captured text does not fit and after recording another slice
C11_Witness ==
    /\ pc = "done" /\ out_file # <<>>
    /\ \E r \in 1..Len(rasters) : rasters[r].name.m /\ ~rasters[r].name.fits

Terminated == pc \in {"done", "exit", "crashed"}

\* C12 (as claimed): when the run has ended, the time series file is
\* written if and only if at least one record was produced, and a run
\* without records has ended by a SystemExit whose message names the date
\* pattern and sample file names.
C12_WrittenIffRecords ==
    Terminated =>
        /\ (out_file # <<>>) <=> (records # <<>>)
        /\ records = <<>> =>
              /\ pc = "exit"
              /\ {"date_regex", "date_format", "examples"} \subseteq diag

\* C12 (amended): a run whose loop reaches its end writes the file if and
\* only if it produced a record, and without records it ends by the
\* SystemExit naming the date pattern and sample file names; a run without
\* rasters ends by a SystemExit naming only the directory and the glob; a
\* run ended by an exception writes no file, whatever it had recorded.
C12_WrittenIffRecordsAtLoopEnd ==
    /\ pc = "done" => (records # <<>> /\ out_file # <<>> /\ diag = {})
    /\ pc = "exit" =>
          /\ records = <<>> /\ out_file = <<>>
          /\ rasters # <<>> =>
                {"date_regex", "date_format", "examples"} \subseteq diag
          /\ rasters = <<>> => diag = {"raster_dir", "raster_glob"}
    /\ pc = "crashed" => (out_file = <<>> /\ diag = {})
    /\ ~Terminated => out_file = <<>>

\* witness of C12: tiles were opened, no AOI met any of them, and the run
\* ended by the SystemExit naming the date pattern
C12_Witness ==
    /\ pc = "exit" /\ opened # {} /\ records = <<>> /\ out_file = <<>>
    /\ "date_regex" \in diag

Count(seq, r) == Cardinality({k \in 1..Len(seq) : seq[k] = r})

\* C13: the written rows are in ascending (AOI id, timestamp) order: of two
\* consecutive rows the AOI id increases, or it is the same and the
\* timestamp does not decrease; the rows are exactly the appended records.
C13_OutputSorted ==
    pc = "done" =>
        /\ \A k \in 1..(Len(out_file) - 1) :
              \/ out_file[k].aoi < out_file[k + 1].aoi
              \/ /\ out_file[k].aoi = out_file[k + 1].aoi
                 /\ out_file[k].date <= out_file[k + 1].date
        /\ Len(out_file) = Len(records)
        /\ \A k \in 1..Len(records) :
              Count(out_file, records[k]) = Count(records, records[k])

\* witness of C13: the records of one AOI were appended latest day first,
\* between those of another AOI, and the file holds them reordered
C13_Witness ==
    /\ pc = "done" /\ out_file # records
    /\ \E j, k \in 1..Len(records) :
         /\ j < k /\ records[j].aoi = records[k].aoi
         /\ records[j].date > records[k].date

AoisRecorded(r) == {records[k].aoi : k \in {j \in 1..Len(records) :
                                              records[j].raster = r}}

\* C14 (as claimed): pruning does not change which AOIs get a record of a
\* time-slice: for every slice that was opened and completed, the AOIs
\* with a record are those of the unpruned frame of the slice's CRS, to
\* each of which the zonal statistics engine returns a statistics mapping.
C14_PruningKeepsRecipients ==
    \A r \in opened :
        (r < ri /\ pc # "crashed") =>
            AoisRecorded(r) =
              {row.aoi : row \in Range(CachedFrame(aois_by_crs, rasters[r].crs))}

----------------------------------------------------------------------------
(* Claims on the records of each tile (SpecTiles) *)

RecordsOf(r, a) == {k \in 1..Len(records) :
                      records[k].raster = r /\ records[k].aoi = a}

\* C21 (as claimed): for each parsed time-slice that has been processed,
\* exactly one record is appended for each AOI that intersects the tile's
\* bounding box, with NaN statistics if it covers no valid pixel, and no
\* record for an AOI that does not intersect it; so N AOIs that all overlap
\* each of M parsed tiles yield exactly N x M records.
C21_OneRecordPerIntersectingAoi ==
    /\ \A r \in opened : r < ri =>
          \A a \in Range(aois) :
             LET rel == rasters[r].bounds.rel[a] IN
             /\ Cardinality(RecordsOf(r, a)) =
                   IF IntersectsTile(rel) THEN 1 ELSE 0
             /\ \A k \in RecordsOf(r, a) :
                   rel = "touch" => records[k].stats["mean"] = NaN
    /\ (/\ pc = "done"
        /\ \A r \in 1..Len(rasters) : \A a \in Range(aois) :
              rasters[r].bounds.rel[a] = "in")
       => Len(records) = Len(aois) * Len(rasters)

----------------------------------------------------------------------------
(* Claims on the reprojection cache of main (SpecCache) *)

\* C15: the cache is write-once per CRS key: aois.to_crs is called at most
\* once per distinct CRS string, the cache holds one entry per key of an
\* opened tile, every entry is the full reprojected AOI set whatever
\* pruning has kept of it, and the loaded AOI set is as it was loaded.
C15_CacheWriteOnce ==
    /\ \A j, k \in 1..Len(to_crs_calls) :
          to_crs_calls[j] = to_crs_calls[k] => j = k
    /\ \A e, f \in aois_by_crs : e.key = f.key => e = f
    /\ {e.key : e \in aois_by_crs} = {rasters[r].crs : r \in opened}
    /\ \A e \in aois_by_crs : e.frame = to_crs(LoadedAois, e.key)
    /\ aois = LoadedAois

\* witness of C15: two tiles of the same CRS were opened, the second one
\* pruned to fewer AOIs than the cached frame holds, and one to_crs call
\* was made
C15_Witness ==
    /\ Cardinality(opened) >= 2 /\ Len(to_crs_calls) = 1
    /\ pc = "open" /\ ri >= 2
    /\ Len(todo) < Len(CachedFrame(aois_by_crs, rasters[ri].crs))

----------------------------------------------------------------------------
(* 34_match_controls_by_covariates.py: main *)

OtherThanMatch == <<statsVars, riskVars, mainVars, anomVars, collapseVars,
                    enrichVars, parseVars, pruneVars, sampleVars>>

\* the covariate columns matched on (args.features)
Feats == {1, 2}

RatAdd(a, b) == Rat(a.n * b.d + b.n * a.d, a.d * b.d)

RatLess(a, b) == a.n * b.d < b.n * a.d

\* rows of one buffer group, in df order
GroupRows(b) == SelectSeq(df, LAMBDA r : r.buffer_m = b)

Dcs(b) == SelectSeq(GroupRows(b), LAMBDA r : r.is_dc = 1)

Ctrls(b) == SelectSeq(GroupRows(b), LAMBDA r : r.is_dc = 0)

\* StandardScaler.fit on vstack([X_ctrl, X_dc]): the variance of column f
\* over the rows whose value is not NaN, as [n, d] with var = n / d; a zero
\* variance is replaced by the scale 1
ScaleSq(b, f) ==
    LET g == GroupRows(b)
        col == [k \in 1..Len(g) |-> g[k].x[f]]
        cnt == Len(SelectSeq(col, IsNum))
        s1 == SeqSum([k \in 1..Len(g) |-> col[k].n])
        s2 == SeqSum([k \in 1..Len(g) |-> col[k].n * col[k].n])
        v == cnt * s2 - s1 * s1
    IN IF cnt = 0 \/ v = 0 THEN [n |-> 1, d |-> 1] ELSE [n |-> v, d |-> cnt * cnt]

RECURSIVE SumSq(_, _, _, _)
\* sum over the columns F of ((x[f] - y[f]) / scale_f) ^ 2
SumSq(b, x, y, F) ==
    IF F = {} THEN Num(0)
    ELSE LET f == CHOOSE e \in F : TRUE
             s == ScaleSq(b, f)
             delta == x[f].n - y[f].n
         IN RatAdd(Rat(delta * delta * s.d, s.n), SumSq(b, x, y, F \ {f}))

\* dist[i, j] squared: the squared euclidean distance of the standardized
\* rows (NaN when a covariate of either row is NaN)
Dist2(b, x, y) ==
    IF \E f \in Feats : ~IsNum(x[f]) \/ ~IsNum(y[f]) THEN NaN
    ELSE SumSq(b, x, y, Feats)

\* a < b as numpy sorts distances: NaN after every number
DistLess(a, b) == IsNum(a) /\ (IsNaN(b) \/ RatLess(a, b))

Perms(n) == {p \in [1..n -> 1..n] : \A a, c \in 1..n : a # c => p[a] # p[c]}

\* mutant: the candidates are taken in table order, not by distance
ArgSortsUnsorted(d) == {[j \in 1..Len(d) |-> j]}

\* np.argsort(dist[i, :]): the orders of the control indices by ascending
\* distance; the order among equal distances is not specified
ArgSorts(d) ==
    {p \in Perms(Len(d)) :
        \A a, c \in 1..Len(d) : a < c => ~DistLess(d[p[c]], d[p[a]])}

RECURSIVE PicksReuse(_, _, _, _, _, _, _, _)
\* mutant: the used_controls set is not consulted
PicksReuse(b, dc, ctrls, order, pos, used, picked, acc) ==
    IF pos > Len(order) THEN [res |-> acc, used |-> used]
    ELSE LET c == ctrls[order[pos]]
             acc2 == Append(acc,
                       [data_center_aoi_id |-> dc.aoi_id,
                        control_aoi_id |-> c.aoi_id,
                        buffer_m |-> b,
                        match_rank |-> picked,
                        distance |-> Dist2(b, dc.x, c.x)])
             used2 == used \cup {c.aoi_id}
         IN IF picked + 1 >= margs.k
            THEN [res |-> acc2, used |-> used2]
            ELSE PicksReuse(b, dc, ctrls, order, pos + 1, used2,
                            picked + 1, acc2)

RECURSIVE Picks(_, _, _, _, _, _, _, _)
\* lines 85-104: the loop over order from position pos on; acc is the list
\* of MatchResult appended so far, used the used_controls set
Picks(b, dc, ctrls, order, pos, used, picked, acc) ==
    IF pos > Len(order) THEN [res |-> acc, used |-> used]
    ELSE LET c == ctrls[order[pos]]
         IN IF margs.no_reuse /\ c.aoi_id \in used
            THEN Picks(b, dc, ctrls, order, pos + 1, used, picked, acc)
            ELSE LET acc2 == Append(acc,
                               [data_center_aoi_id |-> dc.aoi_id,
                                control_aoi_id |-> c.aoi_id,
                                buffer_m |-> b,
                                match_rank |-> picked,
                                distance |-> Dist2(b, dc.x, c.x)])
                     used2 == used \cup {c.aoi_id}
                 IN IF picked + 1 >= margs.k
                    THEN [res |-> acc2, used |-> used2]
                    ELSE Picks(b, dc, ctrls, order, pos + 1, used2,
                               picked + 1, acc2)

\* mutant: the feature columns are not looked up
missing_features_unchecked(feats, columns) == {}

\* lines 52-54: the features that are not columns of df
missing_features(feats, columns) == {f \in Range(feats) : f \notin columns}

\* lines 51-58: SystemExit on a feature that is not a column of df
CheckFeatures ==
    /\ mpc = "check"
    /\ mpc' = IF missing_features(margs.features, margs.columns) # {}
              THEN "exit" ELSE "groups"
    /\ UNCHANGED <<margs, out_csv, df, groups, dci, results, used_controls,
                   OtherThanMatch>>

\* lines 60-64: the next buffer group; a group without data centers or
\* without controls is skipped
NextGroup ==
    /\ mpc = "groups" /\ groups # <<>>
    /\ groups' = Tail(groups)
    /\ IF Dcs(Head(groups)) = <<>> \/ Ctrls(Head(groups)) = <<>>
       THEN UNCHANGED <<mpc, dci>>
       ELSE mpc' = "dcs" /\ dci' = 1
    /\ UNCHANGED <<margs, out_csv, df, results, used_controls, OtherThanMatch>>

\* the buffer group being matched (the last key taken from groups)
CurGroup ==
    LET keys == {df[k].buffer_m : k \in 1..Len(df)} \ Range(groups)
    IN CHOOSE b \in keys : \A c \in keys : c <= b

\* lines 81-104: one data center of the group
MatchTreatment ==
    /\ mpc = "dcs"
    /\ LET b == CurGroup
           dcs == Dcs(b)
           ctrls == Ctrls(b)
           dc == dcs[dci]
           d == [j \in 1..Len(ctrls) |-> Dist2(b, dc.x, ctrls[j].x)]
       IN \E order \in ArgSorts(d) :
            LET p == Picks(b, dc, ctrls, order, 1, used_controls, 0, <<>>)
            IN /\ results' = results \o p.res
               /\ used_controls' = p.used
               /\ IF dci < Len(dcs)
                  THEN dci' = dci + 1 /\ UNCHANGED mpc
                  ELSE dci' = 0 /\ mpc' = "groups"
    /\ UNCHANGED <<margs, out_csv, df, groups, OtherThanMatch>>

\* lines 106-110: the matches are written
WriteMatches ==
    /\ mpc = "groups" /\ groups = <<>>
    /\ mpc' = "done"
    /\ out_csv' = [exists |-> TRUE, rows |-> results]
    /\ UNCHANGED <<margs, df, groups, dci, results, used_controls,
                   OtherThanMatch>>

MatchNext == CheckFeatures \/ NextGroup \/ MatchTreatment \/ WriteMatches

\* args.features, split at the commas: the two covariate columns of x
FeatureNames == <<"impervious_pct__mean", "nightlights__mean">>

\* the columns meta brings into df
MetaColumns == {"aoi_id", "is_data_center", "buffer_m", "site_id"}

\* covariate rows: two numeric columns, one of them possibly missing
FeatRows == {<<Num(0), Num(0)>>, <<Num(2), Num(0)>>, <<Num(0), Num(1)>>,
             <<NaN, Num(0)>>}

\* the rows of the first buffer group: nd data centers, then nc controls
FirstGroup(nd, nc, x) ==
    [k \in 1..(nd + nc) |->
        [aoi_id |-> k, is_dc |-> IF k <= nd THEN 1 ELSE 0, buffer_m |-> 250,
         x |-> x[k]]]

\* a second buffer group of one data center and one control
SecondGroup ==
    <<[aoi_id |-> MaxUnits + 1, is_dc |-> 1, buffer_m |-> 500,
       x |-> <<Num(0), Num(0)>>],
      [aoi_id |-> MaxUnits + 2, is_dc |-> 0, buffer_m |-> 500,
       x |-> <<Num(2), Num(0)>>]>>

SortedKeys(S) ==
    CHOOSE q \in [1..Cardinality(S) -> S] :
        \A a, c \in 1..Cardinality(S) : a < c => q[a] < q[c]

InitMatch ==
    /\ StatsIdle /\ RiskIdle /\ MainIdle /\ AnomIdle /\ RestIdle
    /\ margs \in {[k |-> kk, no_reuse |-> nr, features |-> FeatureNames,
                    columns |-> MetaColumns \cup Range(FeatureNames)] :
                     kk \in {1, 2}, nr \in BOOLEAN}
    /\ out_csv = [exists |-> FALSE, rows |-> <<>>]
    /\ \E nd \in 0..MaxUnits, nc \in 0..MaxUnits, second \in BOOLEAN :
         /\ nd + nc <= MaxUnits
         /\ \E x \in [1..(nd + nc) -> FeatRows] :
              df = FirstGroup(nd, nc, x) \o (IF second THEN SecondGroup ELSE <<>>)
    /\ groups = SortedKeys({df[k].buffer_m : k \in 1..Len(df)})
    /\ mpc = "check" /\ dci = 0 /\ results = <<>> /\ used_controls = {}

SpecMatch == InitMatch /\ [][MatchNext]_vars

\* a matched_controls.csv left by an earlier run
StaleCsv ==
    [exists |-> TRUE,
     rows |-> <<[data_center_aoi_id |-> 1, control_aoi_id |-> 9,
                 buffer_m |-> 250, match_rank |-> 0, distance |-> Num(0)]>>]

\* runs on a covariates file that may lack feature columns, with or without
\* an output file of an earlier run: one data center, one or two controls
InitFeatures ==
    /\ StatsIdle /\ RiskIdle /\ MainIdle /\ AnomIdle /\ RestIdle
    /\ margs \in {[k |-> 1, no_reuse |-> nr, features |-> FeatureNames,
                    columns |-> MetaColumns \cup c] :
                     nr \in BOOLEAN, c \in SUBSET Range(FeatureNames)}
    /\ out_csv \in {[exists |-> FALSE, rows |-> <<>>], StaleCsv}
    /\ \E nc \in 1..2 : \E x \in [1..(1 + nc) -> FeatRows] :
         df = FirstGroup(1, nc, x)
    /\ groups = SortedKeys({df[k].buffer_m : k \in 1..Len(df)})
    /\ mpc = "check" /\ dci = 0 /\ results = <<>> /\ used_controls = {}

SpecFeatures == InitFeatures /\ [][MatchNext]_vars

\* one buffer group of two data centers (ids 1, 2) with the same covariates
\* and the controls 3..MaxUnits, of which control 3 is the nearest to both
ContestedGroup ==
    [k \in 1..MaxUnits |->
        [aoi_id |-> k, is_dc |-> IF k <= 2 THEN 1 ELSE 0, buffer_m |-> 250,
         x |-> IF k <= 3 THEN <<Num(0), Num(0)>> ELSE <<Num(k - 2), Num(0)>>]]

\* no_reuse runs on the rows of ContestedGroup in any order: df has the
\* rows in the order in which the AOIs first appear in the collapsed file
\* (drop_duplicates of line 45, left merge of line 51)
InitOrder ==
    /\ StatsIdle /\ RiskIdle /\ MainIdle /\ AnomIdle /\ RestIdle
    /\ margs = [k |-> 1, no_reuse |-> TRUE, features |-> FeatureNames,
                columns |-> MetaColumns \cup Range(FeatureNames)]
    /\ out_csv = [exists |-> FALSE, rows |-> <<>>]
    /\ \E p \in Perms(MaxUnits) :
         df = [j \in 1..MaxUnits |-> ContestedGroup[p[j]]]
    /\ groups = SortedKeys({df[k].buffer_m : k \in 1..Len(df)})
    /\ mpc = "check" /\ dci = 0 /\ results = <<>> /\ used_controls = {}

SpecOrder == InitOrder /\ [][MatchNext]_vars

\* the values of --k (type=int): negative, zero, positive
KValues == {0 - 1, 0, 1, 2, 3}

\* runs for every --k on one buffer group whose covariates take two values
InitK ==
    /\ StatsIdle /\ RiskIdle /\ MainIdle /\ AnomIdle /\ RestIdle
    /\ margs \in {[k |-> kk, no_reuse |-> nr, features |-> FeatureNames,
                    columns |-> MetaColumns \cup Range(FeatureNames)] :
                     kk \in KValues, nr \in BOOLEAN}
    /\ out_csv = [exists |-> FALSE, rows |-> <<>>]
    /\ \E nd \in 0..MaxUnits, nc \in 0..MaxUnits :
         /\ nd + nc <= MaxUnits
         /\ \E x \in [1..(nd + nc) ->
                         {<<Num(0), Num(0)>>, <<Num(2), Num(0)>>}] :
              df = FirstGroup(nd, nc, x)
    /\ groups = SortedKeys({df[k].buffer_m : k \in 1..Len(df)})
    /\ mpc = "check" /\ dci = 0 /\ results = <<>> /\ used_controls = {}

SpecK == InitK /\ [][MatchNext]_vars

----------------------------------------------------------------------------
(* Claims on the matching (SpecMatch) *)

SameTreatment(r, q) ==
    r.data_center_aoi_id = q.data_center_aoi_id /\ r.buffer_m = q.buffer_m

\* the number of records emitted before results[a] for the same treatment
EarlierOfTreatment(a) ==
    Cardinality({c \in 1..(a - 1) : SameTreatment(results[c], results[a])})

\* C6: with no_reuse no control AOI id appears in more than one match
\* record; with or without it no control appears twice among the matches
\* of one treatment AOI.
C6_NoControlTwice ==
    \A a, c \in 1..Len(results) :
        (a # c /\ (margs.no_reuse \/ SameTreatment(results[a], results[c])))
            => results[a].control_aoi_id # results[c].control_aoi_id

\* witness of C6: a finished no_reuse run in which two data centers of one
\* buffer group were matched, and a data center of another group too
C6_Witness ==
    /\ mpc = "done" /\ margs.no_reuse
    /\ \E a, c, e \in 1..Len(results) :
         /\ results[a].buffer_m = results[c].buffer_m
         /\ results[a].data_center_aoi_id # results[c].data_center_aoi_id
         /\ results[e].buffer_m # results[a].buffer_m

RanksContiguous ==
    \A a \in 1..Len(results) : results[a].match_rank = EarlierOfTreatment(a)

\* C7 (as claimed): per (treatment, buffer) the ranks are 0, 1, 2, ... in
\* emission order and the distance is strictly increasing with the rank.
C7_RanksStrictlyIncreasing ==
    /\ RanksContiguous
    /\ \A a, c \in 1..Len(results) :
         (a < c /\ SameTreatment(results[a], results[c]))
            => DistLess(results[a].distance, results[c].distance)

\* C7 (amended): per (treatment, buffer) the ranks are 0, 1, 2, ... in
\* emission order and the distance never decreases with the rank: a later
\* rank never carries a smaller distance, and a NaN distance is followed
\* only by NaN distances.
C7_RanksNonDecreasing ==
    /\ RanksContiguous
    /\ \A a, c \in 1..Len(results) :
         (a < c /\ SameTreatment(results[a], results[c]))
            => ~DistLess(results[c].distance, results[a].distance)

\* witness of C7: two ranks of one treatment carry the same finite distance
C7_Witness ==
    \E a, c \in 1..Len(results) :
        /\ a < c /\ SameTreatment(results[a], results[c])
        /\ results[a].match_rank = 0 /\ results[c].match_rank = 1
        /\ IsNum(results[a].distance)
        /\ results[a].distance = results[c].distance

\* the row of df of an AOI id
UnitRow(id) == CHOOSE u \in Range(df) : u.aoi_id = id

\* the position in results of the first record of the treatment of results[a]
TurnStart(a) ==
    CHOOSE c \in 1..a :
        /\ SameTreatment(results[c], results[a])
        /\ \A e \in 1..(c - 1) : ~SameTreatment(results[e], results[a])

\* the controls open to the treatment of results[a] when its turn came
AvailableAt(a) ==
    {u \in Range(Ctrls(results[a].buffer_m)) :
        margs.no_reuse =>
            \A e \in 1..(TurnStart(a) - 1) :
                results[e].control_aoi_id # u.aoi_id}

PickedBy(a) ==
    {results[c].control_aoi_id :
        c \in {e \in 1..Len(results) : SameTreatment(results[e], results[a])}}

\* the distance of the treatment of results[a] to the unit u
DistanceTo(a, u) ==
    Dist2(results[a].buffer_m, UnitRow(results[a].data_center_aoi_id).x, u.x)

\* C23: the controls matched to a treatment are the nearest of the controls
\* of its buffer group that were available at its turn (all of them without
\* no_reuse, those not yet used with it): no available control it left
\* unpicked is strictly closer to it than a control it picked, and its
\* picks are emitted in ascending order of distance.
C23_GreedyNearestAvailable ==
    \A a \in 1..Len(results) :
        /\ \E u \in AvailableAt(a) :
              /\ u.aoi_id = results[a].control_aoi_id
              /\ results[a].distance = DistanceTo(a, u)
        /\ \A u \in AvailableAt(a) :
              u.aoi_id \notin PickedBy(a) =>
                  ~DistLess(DistanceTo(a, u), results[a].distance)
        /\ \A c \in 1..Len(results) :
              (a < c /\ SameTreatment(results[a], results[c]))
                 => ~DistLess(results[c].distance, results[a].distance)

\* witness of C23: under no_reuse a treatment left a farther control
\* unpicked, and a later treatment of the group took a control although a
\* used one is strictly closer to it
C23_Witness ==
    /\ mpc = "done" /\ margs.no_reuse
    /\ \E a, c \in 1..Len(results) :
         /\ a < c /\ results[a].buffer_m = results[c].buffer_m
         /\ results[a].data_center_aoi_id # results[c].data_center_aoi_id
         /\ \E u \in AvailableAt(a) :
               /\ u.aoi_id \notin PickedBy(a)
               /\ DistLess(results[a].distance, DistanceTo(a, u))
         /\ DistLess(DistanceTo(c, UnitRow(results[a].control_aoi_id)),
                     results[c].distance)

----------------------------------------------------------------------------
(* Claims on the order of the treatments (SpecOrder) *)

\* u is the one control of its group nearest to the data center t
NearestOf(t, u) ==
    \A v \in Range(Ctrls(t.buffer_m)) :
        v # u => DistLess(Dist2(t.buffer_m, t.x, u.x),
                          Dist2(t.buffer_m, t.x, v.x))

\* C24 (as claimed): under no_reuse the treatments of a buffer group take
\* their turns in ascending AOI id order whatever the row order of the
\* input, so a control that is the nearest to two treatments goes to the
\* one with the smaller AOI id, and runs on the same rows in another order
\* emit the same matches.
C24_AscendingTreatmentOrder ==
    margs.no_reuse =>
        /\ \A a, c \in 1..Len(results) :
              (a < c /\ results[a].buffer_m = results[c].buffer_m)
                 => results[a].data_center_aoi_id <= results[c].data_center_aoi_id
        /\ mpc = "done" =>
              \A t1, t2 \in Range(df) : \A u \in Range(df) :
                 (/\ t1.is_dc = 1 /\ t2.is_dc = 1 /\ u.is_dc = 0
                  /\ t1.buffer_m = t2.buffer_m /\ u.buffer_m = t1.buffer_m
                  /\ t1.aoi_id < t2.aoi_id
                  /\ NearestOf(t1, u) /\ NearestOf(t2, u))
                 => \E a \in 1..Len(results) :
                       /\ results[a].data_center_aoi_id = t1.aoi_id
                       /\ results[a].control_aoi_id = u.aoi_id

----------------------------------------------------------------------------
(* Claims on the number of matches of a treatment (SpecK) *)

RowPos(id) == CHOOSE j \in 1..Len(df) : df[j].aoi_id = id

RecordsFor(t) ==
    {a \in 1..Len(results) :
        /\ results[a].data_center_aoi_id = t.aoi_id
        /\ results[a].buffer_m = t.buffer_m}

\* the controls open to the data center t at its turn: under no_reuse those
\* no data center before it in the table was matched to
AvailableTo(t) ==
    {u \in Range(Ctrls(t.buffer_m)) :
        margs.no_reuse =>
            \A a \in 1..Len(results) :
                RowPos(results[a].data_center_aoi_id) < RowPos(t.aoi_id)
                    => results[a].control_aoi_id # u.aoi_id}

MinOf(a, b) == IF a <= b THEN a ELSE b

\* C25 (as claimed): for every k, zero and negative k included, and every
\* treatment AOI, the number of match records emitted for it in its buffer
\* is at most k (none when k is zero or negative), and is min(k, number of
\* controls available to it at its turn) when k >= 0.
C25_AtMostKMatches ==
    mpc = "done" =>
        \A t \in Range(df) :
            t.is_dc = 1 =>
                /\ Cardinality(RecordsFor(t)) <=
                      (IF margs.k >= 0 THEN margs.k ELSE 0)
                /\ margs.k >= 0 =>
                      Cardinality(RecordsFor(t)) =
                          MinOf(margs.k, Cardinality(AvailableTo(t)))

----------------------------------------------------------------------------
(* Claims on the feature columns of the matching (SpecFeatures) *)

\* C18: when a configured feature column is absent from the merged AOI
\* table, matching ends by a fatal error before any match is computed and
\* the matched-controls file is neither created nor modified: it is as the
\* run found it, absent or with the rows of an earlier run.
C18_MissingFeatureIsFatal ==
    (mpc # "check" /\ \E f \in Range(margs.features) : f \notin margs.columns) =>
        /\ mpc = "exit"
        /\ results = <<>> /\ used_controls = {}
        /\ out_csv \in {[exists |-> FALSE, rows |-> <<>>], StaleCsv}
        /\ out_csv.exists => out_csv = StaleCsv

\* witness of C18: the run ended on a missing feature column and the file
\* of an earlier run is untouched
C18_Witness ==
    /\ mpc = "exit" /\ out_csv = StaleCsv
    /\ "nightlights__mean" \notin margs.columns

----------------------------------------------------------------------------
(* 02_compute_anomaly_and_risk.py: baseline, anomaly, z, hot flag *)

OtherThanAnom == <<statsVars, riskVars, mainVars, matchVars, collapseVars,
                   enrichVars, parseVars, pruneVars, sampleVars>>

\* the "mean" column of the rows of one (aoi_id, group)
GroupMeans(a, g) ==
    LET rows == SelectSeq(tseries, LAMBDA r : r.aoi_id = a /\ r.group = g)
    IN [k \in 1..Len(rows) |-> rows[k].mean]

\* pandas "std" (ddof = 1) squared, over the sorted finite values v: NaN
\* for fewer than two values
SampleVar(v) ==
    LET m == Len(v)
        s1 == SeqSum(v)
        s2 == SeqSum([k \in 1..m |-> v[k] * v[k]])
    IN IF m < 2 THEN NaN ELSE Rat(m * s2 - s1 * s1, m * (m - 1))

\* mutant: a group exactly at the minimum is blanked too
BelowOrAtMin(n_obs) == n_obs <= min_obs

\* line 66: the group has too few observations
BelowMin(n_obs) == n_obs < min_obs

\* lines 56-66: one row of base
BaseRow(a, g) ==
    LET v == SortedFinite(GroupMeans(a, g))
        n_obs == Len(v)
        keep == ~BelowMin(n_obs)
    IN [aoi_id |-> a, group |-> g, n_obs |-> n_obs,
        baseline_mean |-> IF keep /\ n_obs > 0 THEN Rat(SeqSum(v), n_obs) ELSE NaN,
        baseline_var |-> IF keep THEN SampleVar(v) ELSE NaN,
        baseline_p90 |-> IF keep /\ n_obs > 0 THEN Percentile90(v) ELSE NaN]

GroupKeys == {<<tseries[k].aoi_id, tseries[k].group>> : k \in 1..Len(tseries)}

\* a - b on floats
Minus(a, b) ==
    IF IsNum(a) /\ IsNum(b) THEN Rat(a.n * b.d - b.n * a.d, a.d * b.d) ELSE NaN

\* mutant: a missing baseline is taken as 0
AnomalyFill0(mean, bmean) == Minus(mean, IF IsNaN(bmean) THEN Num(0) ELSE bmean)

\* line 69: mean - baseline_mean
Anomaly(mean, bmean) == Minus(mean, bmean)

Sign(x) == IF x > 0 THEN 1 ELSE IF x < 0 THEN -1 ELSE 0

\* line 70: anomaly / baseline_std, held as the signed square of the
\* quotient (sign(anomaly) * anomaly^2 / variance); NaN, +inf or -inf
\* where the float division gives them
ZScore(an, var) ==
    IF ~IsNum(an) \/ ~IsNum(var) THEN NaN
    ELSE IF var.n = 0
         THEN IF an.n = 0 THEN NaN ELSE IF an.n > 0 THEN PInf ELSE NInf
         ELSE Rat(Sign(an.n) * an.n * an.n * var.d, an.d * an.d * var.n)

\* line 71: (mean > baseline_p90).astype("int32")
HotFlag(mean, p90) ==
    IF IsNum(mean) /\ IsNum(p90) /\ RatLess(p90, mean) THEN 1 ELSE 0

\* lines 56-66
ComputeBaseline ==
    /\ apc = "start"
    /\ base' = [key \in GroupKeys |-> BaseRow(key[1], key[2])]
    /\ apc' = "base"
    /\ UNCHANGED <<min_obs, tseries, df2, OtherThanAnom>>

\* lines 68-71
JoinAndDerive ==
    /\ apc = "base"
    /\ df2' = [k \in 1..Len(tseries) |->
                LET r == tseries[k]
                    bs == base[<<r.aoi_id, r.group>>]
                    an == Anomaly(r.mean, bs.baseline_mean)
                IN [aoi_id |-> r.aoi_id, dt |-> r.dt, group |-> r.group,
                    mean |-> r.mean, n_obs |-> bs.n_obs,
                    baseline_mean |-> bs.baseline_mean,
                    baseline_var |-> bs.baseline_var,
                    baseline_p90 |-> bs.baseline_p90,
                    anomaly |-> an,
                    z |-> ZScore(an, bs.baseline_var),
                    is_hot_night |-> HotFlag(r.mean, bs.baseline_p90)]]
    /\ apc' = "joined"
    /\ UNCHANGED <<min_obs, tseries, base, OtherThanAnom>>

AnomNext == ComputeBaseline \/ JoinAndDerive

MeanVals == {NaN, Num(1), Num(3)}

\* timeseries.csv: rows sorted by aoi_id, timestamps ascending (row k is of
\* year k), each in one of two calendar months
InitAnom ==
    /\ StatsIdle /\ RiskIdle /\ MainIdle /\ MatchIdle /\ RestIdle
    /\ min_obs \in 0..3
    /\ \E n \in 1..MaxObs :
         \E a \in [1..n -> {1, 2}], g \in [1..n -> {1, 2}], m \in [1..n -> MeanVals] :
            /\ \A k \in 1..(n - 1) : a[k] <= a[k + 1]
            /\ tseries = [k \in 1..n |-> [aoi_id |-> a[k], dt |-> <<k, g[k]>>,
                                     group |-> g[k], mean |-> m[k]]]
    /\ apc = "start" /\ base = <<>> /\ df2 = <<>>

SpecAnom == InitAnom /\ [][AnomNext]_vars

----------------------------------------------------------------------------
(* Claims on the baseline and the derived columns (SpecAnom) *)

\* the rows of timeseries.csv in the (aoi_id, group) of row r
RowsOfGroup(r) ==
    {k \in 1..Len(tseries) :
        tseries[k].aoi_id = r.aoi_id /\ tseries[k].group = r.group}

\* those of them whose mean is a number
ValidOfGroup(r) == {k \in RowsOfGroup(r) : IsNum(tseries[k].mean)}

BaselineAllNaN(r) ==
    IsNaN(r.baseline_mean) /\ IsNaN(r.baseline_var) /\ IsNaN(r.baseline_p90)

\* C8 (as claimed): an observation of a group below min_obs_per_group has
\* NaN anomaly, NaN z and a hot flag that is NaN, not 0 or 1.
C8_NaNBaselineNaNHotFlag ==
    \A k \in 1..Len(df2) :
        df2[k].n_obs < min_obs =>
            /\ IsNaN(df2[k].anomaly) /\ IsNaN(df2[k].z)
            /\ df2[k].is_hot_night \notin {0, 1}

\* C8 (amended): an observation of a group below min_obs_per_group has NaN
\* anomaly and NaN z, and its hot flag is 0.
C8_NaNBaselineHotFlagZero ==
    \A k \in 1..Len(df2) :
        df2[k].n_obs < min_obs =>
            /\ BaselineAllNaN(df2[k])
            /\ IsNaN(df2[k].anomaly) /\ IsNaN(df2[k].z)
            /\ df2[k].is_hot_night = 0

\* witness of C8: an observation with a value, in a group below the minimum
C8_Witness ==
    \E k \in 1..Len(df2) :
        /\ df2[k].n_obs < min_obs /\ IsNum(df2[k].mean)
        /\ IsNaN(df2[k].anomaly) /\ df2[k].is_hot_night = 0

\* C9 (as claimed): a group with fewer rows than min_obs_per_group has NaN
\* baseline_mean, baseline_std and baseline_p90 on every member; a group
\* with at least that many rows has a baseline_mean that is not NaN.
C9_BaselineByRowCount ==
    \A k \in 1..Len(df2) :
        /\ Cardinality(RowsOfGroup(df2[k])) < min_obs => BaselineAllNaN(df2[k])
        /\ Cardinality(RowsOfGroup(df2[k])) >= min_obs =>
              ~IsNaN(df2[k].baseline_mean)

\* C9 (amended): counting the observations whose mean is not NaN: a group
\* with fewer of them than min_obs_per_group has NaN baseline_mean,
\* baseline_std and baseline_p90 on every member; a group with at least
\* that many, and at least one, has a baseline_mean that is not NaN.
C9_BaselineByValidCount ==
    \A k \in 1..Len(df2) :
        LET valid == Cardinality(ValidOfGroup(df2[k]))
        IN /\ valid < min_obs => BaselineAllNaN(df2[k])
           /\ (valid >= min_obs /\ valid >= 1) => ~IsNaN(df2[k].baseline_mean)

\* witness of C9: a group with enough rows but too few valid values, and a
\* group with exactly the minimum of valid values
C9_Witness ==
    /\ \E k \in 1..Len(df2) :
         /\ Cardinality(ValidOfGroup(df2[k])) < min_obs
         /\ Cardinality(RowsOfGroup(df2[k])) >= min_obs
         /\ BaselineAllNaN(df2[k])
    /\ \E k \in 1..Len(df2) :
         /\ Cardinality(ValidOfGroup(df2[k])) = min_obs
         /\ IsNum(df2[k].baseline_mean)

\* the population variance of the values v: the sum of the squared
\* deviations from their mean, divided by their number
PopVar(v) ==
    LET m == Len(v)
        s1 == SeqSum(v)
        s2 == SeqSum([k \in 1..m |-> v[k] * v[k]])
    IN Rat(m * s2 - s1 * s1, m * m)

\* C26 (as claimed): the baseline standard deviation of an (AOI, bucket)
\* group with n >= min_obs_per_group observations is the population
\* standard deviation (squared deviations from the group mean summed and
\* divided by n, not n - 1); a qualifying group of one observation has
\* baseline_std 0, not NaN.
C26_PopulationStd ==
    apc # "start" =>
        \A key \in DOMAIN base :
            LET v == SortedFinite(GroupMeans(key[1], key[2]))
            IN (Len(v) >= 1 /\ Len(v) >= min_obs) =>
                  /\ base[key].baseline_var = PopVar(v)
                  /\ Len(v) = 1 => base[key].baseline_var = Num(0)

----------------------------------------------------------------------------
(* 02_compute_anomaly_and_risk.py: the composite risk score (lines 89-99) *)

OtherThanRisk == <<statsVars, mainVars, matchVars, anomVars, collapseVars,
      enrichVars, parseVars, pruneVars, sampleVars>>

\* the rolling window of hot_nights_14 (rank_desc <= 14) and its divisor
HotWindow == 14

RatLeq(a, b) == a.n * b.d <= b.n * a.d

\* Series.clip(lower, upper): NaN stays NaN, an infinity takes the bound
Clip(v, lower, upper) ==
    CASE IsNaN(v) -> NaN
      [] v.t = "inf" -> Num(upper)
      [] v.t = "ninf" -> Num(lower)
      [] OTHER -> IF RatLess(v, Num(lower)) THEN Num(lower)
                  ELSE IF RatLess(Num(upper), v) THEN Num(upper) ELSE v

\* Series.fillna(0)
FillNa0(v) == IF IsNaN(v) THEN Num(0) ELSE v

\* a + b and a * c on floats (c an integer)
Plus(a, b) == IF IsNum(a) /\ IsNum(b) THEN RatAdd(a, b) ELSE NaN

Times(a, c) == IF IsNum(a) THEN Rat(a.n * c, a.d) ELSE NaN

\* mutant: the clipped z and trend are not filled with 0
RiskScoreNoFill(z, hot, trend) ==
    LET z_clip == Clip(z, -3, 6)
        freq_score == Rat(hot * 25, HotWindow)
        trend_score == Times(Clip(trend, 0, 5), 5)
    IN Clip(Plus(Plus(Times(z_clip, 10), freq_score), trend_score), 0, 100)

\* lines 96-99
RiskScore(z, hot, trend) ==
    LET z_clip == FillNa0(Clip(z, -3, 6))
        freq_score == Rat(hot * 25, HotWindow)
        trend_score == Times(FillNa0(Clip(trend, 0, 5)), 5)
    IN Clip(Plus(Plus(Times(z_clip, 10), freq_score), trend_score), 0, 100)

\* z of the latest observation: NaN, infinite, and numbers around the clip
\* bounds -3 and 6
ZVals == {NaN, PInf, NInf, Num(-5), Num(-3), Rat(-1, 2), Num(0), Rat(7, 3),
          Num(6), Num(9)}

\* trend_c_per_year: NaN (fewer than 5 points) or a slope
TrendVals == {NaN, Num(-2), Num(0), Rat(3, 2), Num(5), Num(8)}

InitRisk ==
    /\ StatsIdle /\ MainIdle /\ MatchIdle /\ AnomIdle /\ RestIdle
    /\ risk \in {[pending |-> TRUE, called |-> FALSE, op |-> "score",
                  z |-> z, hot |-> h, trend |-> t] :
                    z \in ZVals, h \in 0..HotWindow, t \in TrendVals}

ComputeRisk ==
    /\ risk.pending /\ risk.op = "score"
    /\ risk' = [pending |-> FALSE, called |-> TRUE, op |-> "score",
                z |-> risk.z,
                hot |-> risk.hot, trend |-> risk.trend,
                risk_score |-> RiskScore(risk.z, risk.hot, risk.trend)]
    /\ UNCHANGED OtherThanRisk

RiskNext == ComputeRisk

SpecRisk == InitRisk /\ [][RiskNext]_vars

\* the timestamp pd.to_datetime(errors="coerce") gives for a date that does
\* not parse
NaT == [nat |-> TRUE, v |-> 0]

\* mutant: the observations are ranked from the oldest
RankAsc(rows, k) ==
    1 + Cardinality({j \in 1..Len(rows) :
                        /\ ~rows[j].dt.nat
                        /\ \/ rows[j].dt.v < rows[k].dt.v
                           \/ rows[j].dt.v = rows[k].dt.v /\ j < k})

\* line 78: rank(ascending=False, method="first") of the dt of row k among
\* the rows of its AOI: 1 for the latest; of equal timestamps the row that
\* comes first ranks first; asked only for the rows with a timestamp
RankDesc(rows, k) ==
    1 + Cardinality({j \in 1..Len(rows) :
                        /\ ~rows[j].dt.nat
                        /\ \/ rows[j].dt.v > rows[k].dt.v
                           \/ rows[j].dt.v = rows[k].dt.v /\ j < k})

\* line 79: the rows with rank_desc <= 14 (a NaT has no rank)
Recent(rows) ==
    {k \in 1..Len(rows) : ~rows[k].dt.nat /\ RankDesc(rows, k) <= HotWindow}

\* lines 80, 89-90: the sum of is_hot_night over the recent rows of the
\* AOI; 0 for an AOI without a recent row
HotNights14(rows) ==
    LET recent == Recent(rows)
    IN Cardinality({k \in recent : rows[k].is_hot_night = 1})

\* the rows of one AOI after sort_values(["aoi_id", "dt"]): n observations
\* in ascending order of timestamp, one or two a night, then those whose
\* date did not parse, which never have a hot flag
NightRows(n, hot, paired, nats) ==
    [k \in 1..(n + nats) |->
        IF k <= n
        THEN [dt |-> [nat |-> FALSE, v |-> IF paired THEN (k + 1) \div 2 ELSE k],
              is_hot_night |-> hot[k]]
        ELSE [dt |-> NaT, is_hot_night |-> 0]]

\* the hot flags of n observations: all alike but for at most two of them
HotFlags(n) ==
    {[k \in 1..n |-> IF k \in {a, c} THEN 1 - b ELSE b] :
        a \in 0..n, c \in 0..n, b \in {0, 1}}

InitHot ==
    /\ StatsIdle /\ MainIdle /\ MatchIdle /\ AnomIdle /\ RestIdle
    /\ \E n \in 0..MaxNights, paired \in BOOLEAN, nats \in 0..1 :
         /\ n + nats >= 1
         /\ \E hot \in HotFlags(n) :
              risk = [pending |-> TRUE, called |-> FALSE, op |-> "hot",
                      rows |-> NightRows(n, hot, paired, nats)]

ComputeHotNights ==
    /\ risk.pending /\ risk.op = "hot"
    /\ risk' = [pending |-> FALSE, called |-> TRUE, op |-> "hot",
                rows |-> risk.rows,
                hot_nights_14 |-> HotNights14(risk.rows)]
    /\ UNCHANGED OtherThanRisk

HotNext == ComputeHotNights

SpecHot == InitHot /\ [][HotNext]_vars

\* C10: for every z (finite, infinite or NaN), hot_nights_14 in 0..14 and
\* trend (finite or NaN) the risk score is a number in [0, 100], never NaN;
\* a NaN z contributes 0 (the score is that of z = 0) and a NaN trend
\* contributes 0 (the score is that of trend = 0).
C10_RiskScoreBounded ==
    risk.called =>
        /\ IsNum(risk.risk_score)
        /\ RatLeq(Num(0), risk.risk_score)
        /\ RatLeq(risk.risk_score, Num(100))
        /\ IsNaN(risk.z) =>
              risk.risk_score = RiskScore(Num(0), risk.hot, risk.trend)
        /\ IsNaN(risk.trend) =>
              risk.risk_score = RiskScore(risk.z, risk.hot, Num(0))
        /\ (IsNaN(risk.z) /\ IsNaN(risk.trend)) =>
              risk.risk_score = Rat(risk.hot * 25, HotWindow)

\* witness of C10: NaN z and NaN trend with 14 hot nights score 25
C10_Witness ==
    /\ risk.called /\ IsNaN(risk.z) /\ IsNaN(risk.trend)
    /\ risk.hot = HotWindow /\ risk.risk_score = Num(25)

----------------------------------------------------------------------------
(* Claims on hot_nights_14 (SpecHot) *)

DatedRows(rows) == {k \in 1..Len(rows) : ~rows[k].dt.nat}

HotAmong(rows, S) == Cardinality({k \in S : rows[k].is_hot_night = 1})

\* C27: hot_nights_14 of an AOI is the number of hot flags among its most
\* recent min(14, number of observations) observations by timestamp (of
\* observations with the timestamp at which the window ends, any that fill
\* the window); it is an integer in 0..14, it is 0 for an AOI with no
\* ranked observation, and no observation older than the window counts.
C27_HotNightsOfLast14 ==
    (risk.called /\ risk.op = "hot") =>
        LET rows == risk.rows
            D == DatedRows(rows)
            m == MinOf(HotWindow, Cardinality(D))
        IN /\ risk.hot_nights_14 \in 0..HotWindow
           /\ D = {} => risk.hot_nights_14 = 0
           /\ \A k \in D :
                 LET above == {j \in D : rows[j].dt.v > rows[k].dt.v}
                     ties == {j \in D : rows[j].dt.v = rows[k].dt.v}
                     c == m - Cardinality(above)
                     cold == Cardinality(ties) - HotAmong(rows, ties)
                 IN (c >= 1 /\ c <= Cardinality(ties)) =>
                       /\ risk.hot_nights_14 >= HotAmong(rows, above) +
                             (IF c > cold THEN c - cold ELSE 0)
                       /\ risk.hot_nights_14 <= HotAmong(rows, above) +
                             MinOf(c, HotAmong(rows, ties))

\* witness of C27: an AOI with more than 14 observations whose oldest one
\* is hot has 14 hot nights
C27_Witness ==
    /\ risk.called /\ risk.op = "hot"
    /\ Cardinality(DatedRows(risk.rows)) > HotWindow
    /\ risk.rows[1].is_hot_night = 1
    /\ risk.hot_nights_14 = HotWindow

----------------------------------------------------------------------------
(* 30_collapse_and_filter_observations.py *)

OtherThanCollapse == <<statsVars, riskVars, mainVars, matchVars, anomVars,
                       enrichVars, parseVars, pruneVars, sampleVars>>

RatMul(a, b) == Rat(a.n * b.n, a.d * b.d)

\* lines 11-13: the positions with a finite value and a finite weight > 0
Weighted(values, weights) ==
    {k \in 1..Len(values) :
        IsNum(values[k]) /\ IsNum(weights[k]) /\ weights[k].n > 0}

RECURSIVE RatSum(_)
RatSum(s) == IF s = <<>> THEN Num(0) ELSE RatAdd(Head(s), RatSum(Tail(s)))

\* lines 10-16
weighted_mean(values, weights) ==
    LET m == Weighted(values, weights)
        vw == [k \in 1..Len(values) |->
                 IF k \in m THEN RatMul(values[k], weights[k]) ELSE Num(0)]
        w == [k \in 1..Len(values) |-> IF k \in m THEN weights[k] ELSE Num(0)]
    IN IF m = {} THEN NaN
       ELSE LET a == RatSum(vw)
                b == RatSum(w)
            IN Rat(a.n * b.d, a.d * b.n)

\* line 67: to_numeric(count).fillna(0.0).sum()
Pixels(counts) ==
    RatSum([k \in 1..Len(counts) |->
              IF IsNum(counts[k]) THEN counts[k] ELSE Num(0)])

KeyLeq(x, y) == x[1] < y[1] \/ (x[1] = y[1] /\ x[2] <= y[2])

RECURSIVE KeySeq(_)
KeySeq(S) ==
    IF S = {} THEN <<>>
    ELSE LET m == CHOOSE x \in S : \A y \in S : KeyLeq(x, y)
         IN <<m>> \o KeySeq(S \ {m})

\* df.groupby(group_keys): the groups in key order; a row with a missing
\* value in one of the key columns (null_key) belongs to no group
CollapseKeys(rows) ==
    KeySeq({<<rows[k].dt, rows[k].aoi>> :
              k \in {j \in 1..Len(rows) : ~rows[j].null_key}})

\* lines 62-73: one group
CollapseGroup(rows, key) ==
    LET g == SelectSeq(rows, LAMBDA r : ~r.null_key /\ r.dt = key[1]
                                        /\ r.aoi = key[2])
        w == [k \in 1..Len(g) |-> g[k].count]
    IN [dt |-> key[1], aoi |-> key[2],
        n_tiles |-> Cardinality({g[k].raster : k \in 1..Len(g)}),
        pixels |-> Pixels(w),
        mean |-> weighted_mean([k \in 1..Len(g) |-> g[k].mean], w)]

\* lines 40-78: collapsed_aoi_dt.csv is written
Collapse ==
    /\ cpc = "start"
    /\ collapsed' = [k \in 1..Len(CollapseKeys(cin)) |->
                       CollapseGroup(cin, CollapseKeys(cin)[k])]
    /\ cpc' = "collapsed"
    /\ UNCHANGED <<cargs, cin, usable, OtherThanCollapse>>

\* numpy.nanpercentile(vals, 95), linear interpolation, on sorted integers s
Percentile95(s) ==
    LET m == Len(s)
        lo == (19 * (m - 1)) \div 20
        r == (19 * (m - 1)) % 20
        hi == IF lo + 2 <= m THEN lo + 2 ELSE m
    IN Rat(20 * s[lo + 1] + r * (s[hi] - s[lo + 1]), 20)

\* lines 81-85: the p95 of the collapsed pixel counts of one AOI
P95Pixels(rows, aoi) ==
    Percentile95(SortedFinite([k \in 1..Len(SelectSeq(rows, LAMBDA r : r.aoi = aoi))
                                 |-> SelectSeq(rows, LAMBDA r : r.aoi = aoi)[k].pixels]))

\* mutant: the absolute floor alone
min_pixels_threshold_floor(min_abs, frac, p95) == min_abs

\* lines 87-90: np.maximum(min_abs_pixels, min_frac_of_p95 * p95_pixels)
min_pixels_threshold(min_abs, frac, p95) ==
    IF RatLess(min_abs, RatMul(frac, p95)) THEN RatMul(frac, p95) ELSE min_abs

\* lines 80-94: collapsed_aoi_dt_usable.csv is written
FlagUsable ==
    /\ cpc = "collapsed"
    /\ usable' =
         [k \in 1..Len(collapsed) |->
            LET r == collapsed[k]
                p95 == P95Pixels(collapsed, r.aoi)
                thr == min_pixels_threshold(cargs.min_abs_pixels,
                                            cargs.min_frac_of_p95, p95)
            IN [dt |-> r.dt, aoi |-> r.aoi, n_tiles |-> r.n_tiles,
                pixels |-> r.pixels, mean |-> r.mean, p95_pixels |-> p95,
                min_pixels_threshold |-> thr,
                is_usable |-> ~RatLess(r.pixels, thr)]]
    /\ cpc' = "done"
    /\ UNCHANGED <<cargs, cin, collapsed, OtherThanCollapse>>

CollapseNext == Collapse \/ FlagUsable

\* the count and the mean of a tile hit
CountVals == {NaN, Num(0), Num(2), Num(6)}

TileMeans == {NaN, Num(1), Num(3)}

\* spec example: ten observations of one AOI with pixel counts [50]*9 + [2]
ExampleRows ==
    [k \in 1..10 |-> [aoi |-> 1, dt |-> k, null_key |-> FALSE, raster |-> k,
                      count |-> IF k <= 9 THEN Num(50) ELSE Num(2),
                      mean |-> Num(1)]]

\* the (aoi, dt) keys of n rows in key order
RowKeys(n) ==
    {q \in [1..n -> {1, 2} \X {1, 2}] :
        \A k \in 1..(n - 1) :
            \/ q[k][1] < q[k + 1][1]
            \/ q[k][1] = q[k + 1][1] /\ q[k][2] <= q[k + 1][2]}

\* tile hits of two AOIs on two timestamps, in key order; the rows of the
\* AOIs in nulls lack the value of a key column (site_name)
TileRows(q, c, m, nulls) ==
    [k \in 1..Len(q) |->
        [aoi |-> q[k][1], dt |-> q[k][2], null_key |-> q[k][1] \in nulls,
         raster |-> k, count |-> c[k], mean |-> m[k]]]

InitCollapse ==
    /\ StatsIdle /\ RiskIdle /\ MainIdle /\ MatchIdle /\ AnomIdle
    /\ EnrichIdle /\ ParseIdle /\ CallsIdle
    /\ \/ /\ \E n \in 1..MaxTiles :
               \E q \in RowKeys(n), c \in [1..n -> CountVals],
                  m \in [1..n -> TileMeans], nulls \in {{}, {2}} :
                    cin = TileRows(q, c, m, nulls)
          /\ cargs \in [min_abs_pixels : {Num(0), Num(5)},
                        min_frac_of_p95 : {Rat(1, 4), Num(1)}]
       \/ /\ cin = ExampleRows
          /\ cargs = [min_abs_pixels |-> Num(5), min_frac_of_p95 |-> Rat(1, 4)]
    /\ cpc = "start" /\ collapsed = <<>> /\ usable = <<>>

SpecCollapse == InitCollapse /\ [][CollapseNext]_vars

----------------------------------------------------------------------------
(* Claims on the collapsed observations (SpecCollapse) *)

\* the sorted collapsed pixel counts of the AOI of observation u
AoiPixels(u) ==
    SortSeq([k \in 1..Len(SelectSeq(usable, LAMBDA r : r.aoi = u.aoi)) |->
               SelectSeq(usable, LAMBDA r : r.aoi = u.aoi)[k].pixels.n],
            LAMBDA a, b : a < b)

\* C16: a collapsed observation is usable if and only if its summed pixel
\* count is at least the larger of min_abs_pixels and min_frac_of_p95 times
\* the 95th percentile of the collapsed pixel counts of its own AOI; in the
\* example ([50]*9 + [2], 5, 0.25) the threshold is 12.5, the 2-pixel
\* observation is unusable and the other nine are usable; an observation of
\* zero pixels (its counts zero or NaN) is not usable when min_abs_pixels > 0.
C16_UsableIffAboveThreshold ==
    cpc = "done" =>
        /\ \A k \in 1..Len(usable) :
              LET u == usable[k]
                  part == RatMul(cargs.min_frac_of_p95,
                                 Percentile95(AoiPixels(u)))
                  floor == cargs.min_abs_pixels
              IN /\ u.is_usable <=>
                       (RatLeq(floor, u.pixels) /\ RatLeq(part, u.pixels))
                 /\ (u.pixels = Num(0) /\ RatLess(Num(0), floor)) =>
                       ~u.is_usable
        /\ cin = ExampleRows =>
              /\ Len(usable) = 10
              /\ \A k \in 1..10 :
                    /\ usable[k].min_pixels_threshold = Rat(25, 2)
                    /\ usable[k].is_usable <=> (usable[k].pixels # Num(2))

\* witness of C16: an AOI with observations of 2 and 6 pixels and a
\* fraction of 1: the 95th percentile is 5.8, the first observation is
\* unusable and the second usable, with no absolute floor
C16_Witness ==
    /\ cpc = "done" /\ cargs.min_abs_pixels = Num(0)
    /\ \E j, k \in 1..Len(usable) :
         /\ usable[j].aoi = usable[k].aoi
         /\ usable[j].pixels = Num(2) /\ ~usable[j].is_usable
         /\ usable[k].pixels = Num(6) /\ usable[k].is_usable
         /\ usable[k].p95_pixels = Rat(29, 5)

\* the tile hits of one (AOI, timestamp)
TilesOf(aoi, dt) == SelectSeq(cin, LAMBDA r : r.aoi = aoi /\ r.dt = dt)

\* C17 (as claimed): the collapsed table has exactly one row for every
\* distinct (AOI, timestamp) of the input, whose mean is the pixel-count
\* weighted average of the tiles with a finite value and a finite positive
\* count, NaN when there is no such tile.
C17_OneRowPerKey ==
    cpc # "start" =>
        \A i \in 1..Len(cin) :
            /\ Cardinality({k \in 1..Len(collapsed) :
                              /\ collapsed[k].aoi = cin[i].aoi
                              /\ collapsed[k].dt = cin[i].dt}) = 1
            /\ \A k \in 1..Len(collapsed) :
                  (collapsed[k].aoi = cin[i].aoi /\ collapsed[k].dt = cin[i].dt) =>
                      LET g == TilesOf(cin[i].aoi, cin[i].dt)
                          ok == {j \in 1..Len(g) :
                                   /\ IsNum(g[j].mean) /\ IsNum(g[j].count)
                                   /\ g[j].count.n > 0}
                      IN /\ ok = {} => IsNaN(collapsed[k].mean)
                         /\ ok # {} => IsNum(collapsed[k].mean)

----------------------------------------------------------------------------
(* 14_enrich_data_center_opening_dates.py *)

OtherThanEnrich == <<statsVars, riskVars, mainVars, matchVars, anomVars,
                     collapseVars, parseVars, pruneVars, sampleVars>>

\* a cell DictReader did not find (None)
NoCell == "<None>"

\* x or "" for a cell x
OrEmpty(x) == IF x = NoCell THEN "" ELSE x

\* str.strip() on the texts of the model
Strip(x) == CASE x = " " -> "" [] x = "A " -> "A" [] x = " 2021 " -> "2021"
              [] OTHER -> x

\* str.lower() on the texts of the model
Lower(x) == CASE x = "A" -> "a" [] x = "A " -> "a " [] OTHER -> x

\* a or b or "": the first operand that is neither None nor ""
FirstTruthy(a, b) ==
    IF a \notin {NoCell, ""} THEN a ELSE IF b \notin {NoCell, ""} THEN b ELSE ""

\* lines 35-41
normalize_url(url) ==
    LET u == Strip(OrEmpty(url))
    IN CASE u = "" -> ""
         [] u = "https://u" -> u
         [] OTHER -> "https://u"

\* lines 87-97: the seed map, a later seed replacing an earlier one of the
\* same key, seeds without a name skipped
RECURSIVE SeedMap(_, _)
SeedMap(seeds, acc) ==
    IF seeds = <<>> THEN acc
    ELSE LET sd == Head(seeds)
             key == Lower(Strip(OrEmpty(sd.name)))
         IN IF key = "" THEN SeedMap(Tail(seeds), acc)
            ELSE SeedMap(Tail(seeds),
                         {e \in acc : e.key # key} \cup {[key |-> key, seed |-> sd]})

\* lines 68-97: the input is read, the seed map is built
LoadSeeds ==
    /\ epc = "start"
    /\ seed_map' = SeedMap(efiles.seeds, {})
    /\ epc' = "rows" /\ ei' = 1
    /\ UNCHANGED <<erows, unresolved, efiles, OtherThanEnrich>>

\* mutant: one of the two cells is enough
went_live_status_either(date, url) ==
    IF Strip(OrEmpty(date)) # "" \/ Strip(OrEmpty(url)) # ""
    THEN "verified" ELSE "needs_research"

\* lines 123-126
went_live_status(date, url) ==
    IF Strip(OrEmpty(date)) # "" /\ Strip(OrEmpty(url)) # ""
    THEN "verified" ELSE "needs_research"

\* lines 99-137: one row of the loop
EnrichRow ==
    /\ epc = "rows" /\ ei <= Len(erows)
    /\ LET r == erows[ei]
           name == Strip(OrEmpty(r.name))
           key == Lower(name)
           has_date == Strip(OrEmpty(r.went_live_date)) # ""
           has_source == Strip(OrEmpty(r.went_live_source_url)) # ""
           seeded == (\E e \in seed_map : e.key = key)
                     /\ (~has_date \/ ~has_source)
           seed == (CHOOSE e \in seed_map : e.key = key).seed
           date == IF seeded
                   THEN Strip(FirstTruthy(seed.went_live_date, r.went_live_date))
                   ELSE r.went_live_date
           url == IF seeded
                  THEN normalize_url(FirstTruthy(seed.went_live_source_url,
                                                 r.went_live_source_url))
                  ELSE r.went_live_source_url
           status == went_live_status(date, url)
       IN /\ erows' = [erows EXCEPT ![ei] =
                         [name |-> r.name, went_live_date |-> date,
                          went_live_source_url |-> url,
                          went_live_status |-> status]]
          /\ unresolved' = IF status = "verified" THEN unresolved
                           ELSE Append(unresolved, [row |-> ei, name |-> name])
    /\ ei' = ei + 1
    /\ UNCHANGED <<seed_map, epc, efiles, OtherThanEnrich>>

\* lines 139-155: the CSV and the research queue are written
WriteEnriched ==
    /\ epc = "rows" /\ ei > Len(erows)
    /\ efiles' = [seeds |-> efiles.seeds,
                  csv |-> [k \in 1..Len(erows) |->
                             [name |-> OrEmpty(erows[k].name),
                              went_live_date |-> OrEmpty(erows[k].went_live_date),
                              went_live_source_url |->
                                  OrEmpty(erows[k].went_live_source_url),
                              went_live_status |-> erows[k].went_live_status]],
                  queue |-> unresolved]
    /\ epc' = "done"
    /\ UNCHANGED <<erows, seed_map, ei, unresolved, OtherThanEnrich>>

EnrichNext == LoadSeeds \/ EnrichRow \/ WriteEnriched

\* the rows of the data center CSV before the pass
SiteRows ==
    [name : {"a", "A ", "b"}, went_live_date : {NoCell, " ", "2020"},
     went_live_source_url : {"", " ", "u"}, went_live_status : {NoCell}]

\* the rows of the manual seed CSV
SeedRows ==
    [name : {"a", ""}, went_live_date : {"", " ", " 2021 "},
     went_live_source_url : {"", "u"}]

InitEnrich ==
    /\ StatsIdle /\ RiskIdle /\ MainIdle /\ MatchIdle /\ AnomIdle
    /\ CollapseIdle /\ ParseIdle /\ CallsIdle
    /\ erows \in SeqsOf(SiteRows, 1, MaxSites)
    /\ \E seeds \in SeqsOf(SeedRows, 0, 1) :
         efiles = [seeds |-> seeds, csv |-> <<>>, queue |-> <<>>]
    /\ seed_map = {} /\ epc = "start" /\ ei = 0 /\ unresolved = <<>>

SpecEnrich == InitEnrich /\ [][EnrichNext]_vars

----------------------------------------------------------------------------
(* Claims on the opening date enrichment (SpecEnrich) *)

NonEmpty(x) == Strip(OrEmpty(x)) # ""

InQueue(q, k) == Cardinality({j \in 1..Len(q) : q[j].row = k})

\* C19: after the pass every row, in memory and in the written CSV, has
\* status "verified" if and only if its went_live_date and its
\* went_live_source_url are both non-empty (once surrounding whitespace is
\* stripped, as the code and the integrity test read them); every other row
\* has status "needs_research" and one entry in the written research queue,
\* and no verified row has an entry.
C19_VerifiedIffDateAndSource ==
    epc = "done" =>
        \A k \in 1..Len(erows) :
            LET both(r) == NonEmpty(r.went_live_date)
                           /\ NonEmpty(r.went_live_source_url)
            IN /\ Len(efiles.csv) = Len(erows)
               /\ \A r \in {erows[k], efiles.csv[k]} :
                     /\ r.went_live_status = "verified" <=> both(r)
                     /\ ~both(r) => r.went_live_status = "needs_research"
                     /\ InQueue(efiles.queue, k) = IF both(r) THEN 0 ELSE 1

\* witness of C19: a row completed by a seed is verified, a row with a date
\* and no source is queued
C19_Witness ==
    /\ epc = "done" /\ Len(erows) = 2
    /\ erows[1].went_live_status = "verified"
    /\ erows[1].went_live_date = "2021"
    /\ erows[2].went_live_status = "needs_research"
    /\ erows[2].went_live_date = "2020"
    /\ InQueue(efiles.queue, 2) = 1 /\ InQueue(efiles.queue, 1) = 0

\* the manual seeds hold a seed for the row r
HasSeed(r) == \E e \in seed_map : e.key = Lower(Strip(OrEmpty(r.name)))

\* C28 (as claimed): the enrichment keeps what a row already holds: a
\* non-empty went_live_date or went_live_source_url of the input row is
\* never replaced by a manual seed, whether or not the other one is empty,
\* and a row without a matching seed keeps both as they were.
C28_FilledValuesKept ==
    [][\A k \in 1..Len(erows) :
          /\ NonEmpty(erows[k].went_live_date) =>
                erows'[k].went_live_date = erows[k].went_live_date
          /\ NonEmpty(erows[k].went_live_source_url) =>
                erows'[k].went_live_source_url = erows[k].went_live_source_url
          /\ (epc = "rows" /\ ~HasSeed(erows[k])) =>
                /\ erows'[k].went_live_date = erows[k].went_live_date
                /\ erows'[k].went_live_source_url =
                      erows[k].went_live_source_url]_vars

----------------------------------------------------------------------------
(* 12_parse_chicago_data_centers.py: parse_blocks *)

OtherThanParse == <<statsVars, riskVars, mainVars, matchVars, anomVars,
                    collapseVars, enrichVars, pruneVars, sampleVars>>

\* lines 28-29: runs of whitespace become one space
norm_space(x) == CASE x = "ALPHA  DC" -> "ALPHA DC" [] OTHER -> x

\* str.lower() on the normalised lines of the model
LowerLine(x) ==
    CASE x = "Alpha DC" -> "alpha dc" [] x = "ALPHA DC" -> "alpha dc"
      [] x = "Beta DC" -> "beta dc" [] x = "Op A" -> "op a"
      [] x = "1 Main St" -> "1 main st" [] x = "1 MAIN ST" -> "1 main st"
      [] x = "TBA" -> "tba" [] x = "Chicago" -> "chicago"
      [] x = "60601 Chicago" -> "60601 chicago"
      [] x = "60602 Chicago" -> "60602 chicago"
      [] x = "Data Centers" -> "data centers"
      [] OTHER -> x

\* line 11: ZIP_RE.search(line)
HasZip(x) == x \in {"60601 Chicago", "60602 Chicago"}

\* lines 32-44: the zip of split_zip_city
split_zip(x) ==
    CASE norm_space(x) = "60601 Chicago" -> "60601"
      [] norm_space(x) = "60602 Chicago" -> "60602"
      [] OTHER -> ""

\* lines 61-70
looks_like_operator(x) ==
    /\ norm_space(x) # ""
    /\ ~HasZip(norm_space(x))
    /\ LowerLine(norm_space(x)) # "data centers"

\* lines[i] of the code, "" past the end (0-based i)
LineAt(lines, i) == IF i + 1 <= Len(lines) THEN lines[i + 1] ELSE ""

\* lines 99-121: the street of the row, "" for a placeholder
StreetOf(street) ==
    IF LowerLine(norm_space(street)) = "tba" THEN "" ELSE norm_space(street)

\* lines 82-85: the lines at i pass for the start of a block
Accepted(lines, i) ==
    ~(\/ LineAt(lines, i) = ""
      \/ ~looks_like_operator(LineAt(lines, i + 1))
      \/ HasZip(LineAt(lines, i)))

\* line 91: the zip is taken from the fifth line of the block
LateZip(lines, i) ==
    /\ split_zip(LineAt(lines, i + 3)) = ""
    /\ i + 4 < Len(lines)
    /\ HasZip(LineAt(lines, i + 4))

\* lines 123-136: the row of the block that starts at i
BlockRow(lines, i) ==
    [name |-> norm_space(LineAt(lines, i)),
     operator |-> norm_space(LineAt(lines, i + 1)),
     street |-> StreetOf(LineAt(lines, i + 2)),
     postal_code |-> IF LateZip(lines, i)
                     THEN split_zip(LineAt(lines, i + 4))
                     ELSE split_zip(LineAt(lines, i + 3))]

\* mutant: a rejected position does not move the scan
AdvanceStuck(lines, i) ==
    IF ~Accepted(lines, i) THEN 0 ELSE IF LateZip(lines, i) THEN 5 ELSE 4

\* lines 84, 95-97, 137: what one iteration adds to i
Advance(lines, i) ==
    IF ~Accepted(lines, i) THEN 1 ELSE IF LateZip(lines, i) THEN 5 ELSE 4

RECURSIVE ParseRows(_, _, _)
\* lines 74-137: the loop from index i on (0-based), rows appended so far
ParseRows(lines, i, rows) ==
    IF ~(i < Len(lines) - 2) THEN rows
    ELSE ParseRows(lines, i + Advance(lines, i),
                   IF Accepted(lines, i)
                   THEN Append(rows, BlockRow(lines, i)) ELSE rows)

\* mutant: the key keeps the case of the name and the street
DedupeKeyCased(r) == <<r.name, r.street, r.postal_code>>

\* line 143
DedupeKey(r) == <<LowerLine(r.name), LowerLine(r.street), r.postal_code>>

RECURSIVE Dedupe(_, _, _)
\* lines 139-148: the rows whose key was not seen before, in order
Dedupe(rows, seen, out) ==
    IF rows = <<>> THEN out
    ELSE IF DedupeKey(Head(rows)) \in seen
         THEN Dedupe(Tail(rows), seen, out)
         ELSE Dedupe(Tail(rows), seen \cup {DedupeKey(Head(rows))},
                     Append(out, Head(rows)))

\* lines 73-148
parse_blocks(lines) == Dedupe(ParseRows(lines, 0, <<>>), {}, <<>>)

\* blocks of the pasted text: name, operator, street, zip and city; the same
\* site in another case and spacing; another site; the zip on a fifth line;
\* a placeholder street; another zip; a heading
Blocks ==
    {<<"Alpha DC", "Op A", "1 Main St", "60601 Chicago">>,
     <<"ALPHA  DC", "Op A", "1 MAIN ST", "60601 Chicago">>,
     <<"Beta DC", "Op A", "1 Main St", "60601 Chicago">>,
     <<"Alpha DC", "Op A", "1 Main St", "Chicago", "60601 Chicago">>,
     <<"Alpha DC", "Op A", "TBA", "60601 Chicago">>,
     <<"Alpha DC", "Op A", "1 Main St", "60602 Chicago">>,
     <<"Data Centers">>}

RECURSIVE Concat(_)
Concat(bs) == IF bs = <<>> THEN <<>> ELSE Head(bs) \o Concat(Tail(bs))

InitParse ==
    /\ StatsIdle /\ RiskIdle /\ MainIdle /\ MatchIdle /\ AnomIdle
    /\ CollapseIdle /\ EnrichIdle /\ CallsIdle
    /\ \E bs \in SeqsOf(Blocks, 1, MaxBlocks) :
         pb = [pending |-> TRUE, called |-> FALSE, blocks |-> bs,
               lines |-> Concat(bs)]

ParseCall ==
    /\ pb.pending
    /\ pb' = [pending |-> FALSE, called |-> TRUE, blocks |-> pb.blocks,
              lines |-> pb.lines,
              rows |-> ParseRows(pb.lines, 0, <<>>),
              out |-> parse_blocks(pb.lines)]
    /\ UNCHANGED OtherThanParse

ParseNext == ParseCall

SpecParse == InitParse /\ [][ParseNext]_vars

----------------------------------------------------------------------------
(* Claims on parse_blocks (SpecParse) *)

LowerKey(r) == <<LowerLine(r.name), LowerLine(r.street), r.postal_code>>

\* the positions of the parsed rows whose key no earlier row has
Firsts(rows) ==
    {j \in 1..Len(rows) : \A h \in 1..(j - 1) : LowerKey(rows[h]) # LowerKey(rows[j])}

Kth(S, k) == CHOOSE x \in S : Cardinality({y \in S : y < x}) = k - 1

\* C20: parse_blocks returns no two rows with the same (lower-cased name,
\* lower-cased street, postal code); the rows returned are the first
\* occurrences of their keys among the parsed blocks, in the order of first
\* appearance; a block repeated any number of times yields a single row.
C20_NoDuplicateRows ==
    pb.called =>
        /\ \A j, k \in 1..Len(pb.out) :
              LowerKey(pb.out[j]) = LowerKey(pb.out[k]) => j = k
        /\ Len(pb.out) = Cardinality(Firsts(pb.rows))
        /\ \A k \in 1..Len(pb.out) : pb.out[k] = pb.rows[Kth(Firsts(pb.rows), k)]
        /\ (/\ \A k \in 1..Len(pb.blocks) : pb.blocks[k] = pb.blocks[1]
            /\ Len(pb.blocks[1]) >= 4) => Len(pb.out) = 1

\* witness of C20: the same site parsed three times, the second time in
\* another case and spacing, gave the one row of its first occurrence
C20_Witness ==
    /\ pb.called /\ Len(pb.rows) = 3 /\ Len(pb.out) = 1
    /\ pb.rows[2].name = "ALPHA DC" /\ pb.out[1].name = "Alpha DC"

----------------------------------------------------------------------------
(* 21_make_matched_controls.py: sample_points_within *)

OtherThanSample == <<statsVars, riskVars, mainVars, matchVars, anomVars,
                     collapseVars, enrichVars, parseVars, pruneVars>>

\* the distances in metres of a drawn point to the nearest data center
Distances == {0, 3000, 5000, 7000}

\* f"ctrl_{i:04d}": the prefix and the decimal digits of i, zero-padded to
\* four
control_id(i) ==
    <<"ctrl_", (i \div 1000) % 10, (i \div 100) % 10, (i \div 10) % 10, i % 10>>

\* mutant: one draw more than max_tries is allowed
KeepDrawingOneMore(pts, n, tries, max_tries) ==
    Len(pts) < n /\ tries <= max_tries

\* line 96: len(pts) < n and tries < max_tries
KeepDrawing(pts, n, tries, max_tries) ==
    Len(pts) < n /\ tries < max_tries

\* lines 91-94: avoid_m is not None
Avoiding(args) == args.dcs > 0 /\ args.min_distance_m > 0

\* lines 96-111: one iteration of the loop: a point is drawn in the bbox; it
\* is dropped when the polygon does not contain it or when it is nearer
\* than min_distance_m to a data center
Draw ==
    /\ sp.pc = "loop"
    /\ KeepDrawing(sp.pts, sp.args.n, sp.tries, sp.args.max_tries)
    /\ \E inside \in BOOLEAN, dist \in Distances :
         LET p == [draw |-> sp.tries + 1, inside |-> inside, dist |-> dist]
             kept == /\ inside
                     /\ ~(Avoiding(sp.args) /\ dist < sp.args.min_distance_m)
         IN sp' = [sp EXCEPT !.tries = sp.tries + 1,
                             !.pts = IF kept THEN Append(sp.pts, p) ELSE sp.pts]
    /\ UNCHANGED OtherThanSample

\* lines 113-119: SystemExit with fewer than n points, else the frame of
\* the points with their control_id
EndSampling ==
    /\ sp.pc = "loop"
    /\ ~KeepDrawing(sp.pts, sp.args.n, sp.tries, sp.args.max_tries)
    /\ IF Len(sp.pts) < sp.args.n
       THEN sp' = [sp EXCEPT !.pc = "exit"]
       ELSE sp' = [sp EXCEPT !.pc = "returned",
                             !.out = [k \in 1..Len(sp.pts) |->
                                        [control_id |-> control_id(k - 1),
                                         geometry |-> sp.pts[k]]]]
    /\ UNCHANGED OtherThanSample

SampleNext == Draw \/ EndSampling

\* calls with n_controls and max_tries from 0 on, with or without data
\* centers to avoid, with or without a minimum distance
InitSample ==
    /\ StatsIdle /\ RiskIdle /\ MainIdle /\ MatchIdle /\ AnomIdle
    /\ CollapseIdle /\ EnrichIdle /\ ParseIdle /\ PruneIdle
    /\ \E n \in 0..MaxControls, mt \in 0..MaxTries, md \in {0, 5000},
          dcs \in 0..1 :
         sp = [pc |-> "loop",
               args |-> [n |-> n, max_tries |-> mt, min_distance_m |-> md,
                         dcs |-> dcs],
               pts |-> <<>>, tries |-> 0, out |-> <<>>]

SpecSample == InitSample /\ [][SampleNext]_vars

----------------------------------------------------------------------------
(* Claims on sample_points_within (SpecSample) *)

\* C29: sample_points_within returns exactly n control points, each inside
\* the polygon and at least min_distance_m from every data center, with the
\* distinct ids ctrl_0000 .. ctrl_(n-1), or it ends fatally after exactly
\* max_tries draws; it never returns fewer than n points and never draws
\* more than max_tries times.
C29_ExactlyNOrFatal ==
    sp.pc # "idle" =>
        /\ sp.tries <= sp.args.max_tries
        /\ sp.pc = "returned" =>
              /\ Len(sp.out) = sp.args.n
              /\ \A k \in 1..Len(sp.out) :
                    /\ sp.out[k].geometry.inside
                    /\ sp.args.dcs > 0 =>
                          sp.out[k].geometry.dist >= sp.args.min_distance_m
                    /\ sp.out[k].control_id = <<"ctrl_", 0, 0, 0, k - 1>>
              /\ \A j, k \in 1..Len(sp.out) :
                    sp.out[j].control_id = sp.out[k].control_id => j = k
        /\ sp.pc = "exit" =>
              /\ sp.tries = sp.args.max_tries
              /\ Len(sp.pts) < sp.args.n /\ sp.out = <<>>

\* witness of C29: the last allowed draw gave the second point, after a
\* draw too near a data center was dropped
C29_Witness ==
    /\ sp.pc = "returned" /\ Len(sp.out) = 2
    /\ sp.tries = sp.args.max_tries /\ sp.tries = 3
    /\ sp.args.dcs > 0 /\ sp.args.min_distance_m = 5000
    /\ sp.out[2].geometry.draw = 3
    /\ sp.out[2].geometry.dist = 5000

----------------------------------------------------------------------------
(* 12_parse_chicago_data_centers.py: the loop of parse_blocks, one
   iteration at a time *)

\* lines 77-80, 91-94: the indices (0-based) at which the iteration at i
\* reads the list
ReadsAt(lines, i) ==
    {i}
    \cup {i + d : d \in {d \in 1..3 : i + d < Len(lines)}}
    \cup (IF /\ Accepted(lines, i)
             /\ split_zip(LineAt(lines, i + 3)) = ""
             /\ i + 4 < Len(lines)
          THEN {i + 4} ELSE {})

\* lines of the pasted text: up to MaxBlocks blocks, the last lines cut off
InitScan ==
    /\ StatsIdle /\ RiskIdle /\ MainIdle /\ MatchIdle /\ AnomIdle
    /\ CollapseIdle /\ EnrichIdle /\ CallsIdle
    /\ \E bs \in SeqsOf(Blocks, 0, MaxBlocks), cut \in 0..2 :
         pb = [pending |-> FALSE, called |-> FALSE, pc |-> "loop",
               lines |-> SubSeq(Concat(bs), 1, Len(Concat(bs)) - cut),
               i |-> 0, rows |-> <<>>, its |-> <<>>, out |-> <<>>]

\* lines 75-137: one iteration of the loop
Iterate ==
    /\ pb.pc = "loop"
    /\ pb.i < Len(pb.lines) - 2
    /\ pb' = [pb EXCEPT
                !.i = pb.i + Advance(pb.lines, pb.i),
                !.rows = IF Accepted(pb.lines, pb.i)
                         THEN Append(pb.rows, BlockRow(pb.lines, pb.i))
                         ELSE pb.rows,
                !.its = Append(pb.its,
                               [i |-> pb.i,
                                reads |-> ReadsAt(pb.lines, pb.i),
                                accepted |-> Accepted(pb.lines, pb.i)])]
    /\ UNCHANGED OtherThanParse

\* lines 75, 139-149: the loop is left, the rows are deduplicated and returned
Return ==
    /\ pb.pc = "loop"
    /\ ~(pb.i < Len(pb.lines) - 2)
    /\ pb' = [pb EXCEPT !.pc = "returned",
                        !.out = Dedupe(pb.rows, {}, <<>>)]
    /\ UNCHANGED OtherThanParse

ScanNext == Iterate \/ Return

\* the interpreter runs the loop on: an enabled iteration is taken
SpecScan == InitScan /\ [][ScanNext]_vars /\ WF_vars(ScanNext)

----------------------------------------------------------------------------
(* Claims on the loop of parse_blocks (SpecScan) *)

\* the index after iteration k of the scan
IndexAfter(k) == IF k < Len(pb.its) THEN pb.its[k + 1].i ELSE pb.i

\* the iterations so far: each moves the index on by 1 when the position is
\* rejected and by 4 or 5 when a block is accepted, reads the list only at
\* indices within it, and no index starts two blocks
ScanProgress ==
    /\ \A k \in 1..Len(pb.its) :
          /\ IndexAfter(k) > pb.its[k].i
          /\ ~pb.its[k].accepted => IndexAfter(k) - pb.its[k].i = 1
          /\ pb.its[k].accepted => IndexAfter(k) - pb.its[k].i \in {4, 5}
          /\ pb.its[k].reads \subseteq 0..(Len(pb.lines) - 1)
    /\ \A j, k \in 1..Len(pb.its) : pb.its[j].i = pb.its[k].i => j = k
    /\ Len(pb.rows) = Cardinality({k \in 1..Len(pb.its) : pb.its[k].accepted})
    /\ Len(pb.its) <= Len(pb.lines)
    /\ pb.pc = "returned" => pb.rows = ParseRows(pb.lines, 0, <<>>)

\* C30: parse_blocks terminates on every finite list of lines: the scan
\* index strictly increases on every iteration (by 1 on a rejected position,
\* by 4 or 5 on an accepted block), no line is read at an index outside the
\* list, every line index starts at most one emitted block, and the loop is
\* left in the end.
C30_ScanTerminates == []ScanProgress /\ <>(pb.pc = "returned")

\* witness of C30: the scan has returned after a rejected position, a block
\* of four lines and a block of five
C30_Witness ==
    /\ pb.pc = "returned"
    /\ \E j, k, m \in 1..Len(pb.its) :
          /\ ~pb.its[j].accepted
          /\ pb.its[k].accepted /\ IndexAfter(k) - pb.its[k].i = 4
          /\ pb.its[m].accepted /\ IndexAfter(m) - pb.its[m].i = 5

====
